---- MODULE Spec2Model ----
\* Progressive DOM translation pipeline of the tower-of-babel content script:
\* text extraction, batching, the session controller, the word-pair resolver,
\* the DOM mutator and the reverter.
EXTENDS Integers, Sequences, FiniteSets, TLC

\* ------------------------------------------------------------------ text
\* A string is a sequence of characters; a character is a one-token string.
\* "eacute"/"Eacute" stand for U+00E9/U+00C9: letters that the regular
\* expression classes \w and \b of JavaScript do not count as word characters.

LowerLetters == {"a", "b", "f", "s"}
UpperLetters == {"A", "B", "F", "S"}
Digits == {"1"}
NonAsciiLetters == {"eacute", "Eacute"}
Whitespace == {" "}
Terminals == {"."}

\* String.prototype.toUpperCase, one character
ToUpperChar(c) ==
  CASE c = "a" -> "A" [] c = "b" -> "B" [] c = "f" -> "F" [] c = "s" -> "S"
    [] c = "eacute" -> "Eacute"
    [] OTHER -> c

\* String.prototype.toLowerCase, one character
ToLowerChar(c) ==
  CASE c = "A" -> "a" [] c = "B" -> "b" [] c = "F" -> "f" [] c = "S" -> "s"
    [] c = "Eacute" -> "eacute"
    [] OTHER -> c

toUpperCase(s) == [i \in 1..Len(s) |-> ToUpperChar(s[i])]

toLowerCase(s) == [i \in 1..Len(s) |-> ToLowerChar(s[i])]

\* the class \w of a JavaScript regular expression: [A-Za-z0-9_]
IsWordChar(c) == c \in LowerLetters \cup UpperLetters \cup Digits

\* the class \s
IsSpace(c) == c \in Whitespace

\* the assertion \b between text[i] and text[i+1] (i in 0..Len(text))
WordBoundary(text, i) ==
  LET before == i >= 1 /\ IsWordChar(text[i])
      after == i < Len(text) /\ IsWordChar(text[i + 1])
  IN before # after

\* String.prototype.trim
RECURSIVE TrimLeft(_)
TrimLeft(s) == IF s # <<>> /\ IsSpace(Head(s)) THEN TrimLeft(Tail(s)) ELSE s

RECURSIVE TrimRight(_)
TrimRight(s) ==
  IF s # <<>> /\ IsSpace(s[Len(s)]) THEN TrimRight(SubSeq(s, 1, Len(s) - 1)) ELSE s

trim(s) == TrimRight(TrimLeft(s))

\* A pattern is a sequence of atoms between two \b: a literal character, or
\* the wildcard an unescaped "." is.
Lit(c) == [kind |-> "lit", c |-> c]
AnyChar == [kind |-> "any", c |-> "."]

\* escapeRegex: every special character becomes a literal
escapeRegex(str) == [i \in 1..Len(str) |-> Lit(str[i])]

\* the word put into a pattern unescaped (validateWordPairs)
RawPattern(str) ==
  [i \in 1..Len(str) |-> IF str[i] = "." THEN AnyChar ELSE Lit(str[i])]

AtomMatches(atom, c, ignoreCase) ==
  IF atom.kind = "any" THEN TRUE
  ELSE IF ignoreCase THEN ToUpperChar(atom.c) = ToUpperChar(c)
  ELSE atom.c = c

\* \b<pattern>\b matches text at the 1-based index i
MatchAt(pattern, text, i, ignoreCase) ==
  /\ i >= 1
  /\ i + Len(pattern) - 1 <= Len(text)
  /\ \A k \in 1..Len(pattern) : AtomMatches(pattern[k], text[i + k - 1], ignoreCase)
  /\ WordBoundary(text, i - 1)
  /\ WordBoundary(text, i + Len(pattern) - 1)

\* the loop of RegExp.prototype.exec with the g flag: the start indices of the
\* matches from left to right, each search starting where the last match ended
RECURSIVE FindMatches(_, _, _, _)
FindMatches(pattern, text, from, ignoreCase) ==
  IF from + Len(pattern) - 1 > Len(text) THEN <<>>
  ELSE IF MatchAt(pattern, text, from, ignoreCase)
       THEN <<from>> \o FindMatches(pattern, text, from + Len(pattern), ignoreCase)
       ELSE FindMatches(pattern, text, from + 1, ignoreCase)

\* RegExp.prototype.test
RegexTest(pattern, text, ignoreCase) ==
  \E i \in 1..Len(text) : MatchAt(pattern, text, i, ignoreCase)

preserveCapitalization(original, translated) ==
  IF Len(original) = 0 \/ Len(translated) = 0 THEN translated
  ELSE IF original = toUpperCase(original) THEN toUpperCase(translated)
  ELSE IF original[1] = ToUpperChar(original[1])
       THEN <<ToUpperChar(translated[1])>> \o Tail(translated)
       ELSE translated

\* ------------------------------------------------------------------ DOM
\* The document is its content elements; dom[e] is the sequence of child
\* nodes of content element e. A node is a text node (with an identity) or a
\* span.translated-word (with its attributes and its own children).

VARIABLES dom, nextId, refs, last, orig, ops

NumElements == 2

Elements == 1..NumElements

TextNode(id, text) == [kind |-> "text", id |-> id, text |-> text]

\* the attribute the reverter reads the original word from
OriginalAttribute == "data-original"

\* Mutant of createTranslatedWordSpan: the original word is stored under
\* another attribute name than the one the reverter reads.
createTranslatedWordSpan_otherAttribute(originalWord, translatedWord, id) ==
  [kind |-> "span",
   attrs |-> ("data-english" :> originalWord) @@ ("data-translation" :> translatedWord),
   kids |-> IF translatedWord = <<>> THEN <<>> ELSE <<TextNode(id, translatedWord)>>]

\* createTranslatedWordSpan: span.textContent = translatedWord (a child text
\* node unless the string is empty), dataset.original, dataset.translation
createTranslatedWordSpan(originalWord, translatedWord, id) ==
  [kind |-> "span",
   attrs |-> ("data-original" :> originalWord) @@ ("data-translation" :> translatedWord),
   kids |-> IF translatedWord = <<>> THEN <<>> ELSE <<TextNode(id, translatedWord)>>]

\* Element.getAttribute; null and "" are both falsy and both <<>> here
getAttribute(span, name) ==
  IF name \in DOMAIN span.attrs THEN span.attrs[name] ELSE <<>>

\* Node.textContent of a sequence of sibling nodes
RECURSIVE TextContent(_)
TextContent(kids) ==
  IF kids = <<>> THEN <<>>
  ELSE LET h == Head(kids)
       IN (IF h.kind = "text" THEN h.text ELSE TextContent(h.kids))
          \o TextContent(Tail(kids))

\* the text nodes below a sequence of sibling nodes, in document order
RECURSIVE TextNodesOf(_)
TextNodesOf(kids) ==
  IF kids = <<>> THEN <<>>
  ELSE LET h == Head(kids)
       IN (IF h.kind = "text" THEN <<h>> ELSE TextNodesOf(h.kids))
          \o TextNodesOf(Tail(kids))

\* querySelectorAll(".translated-word") below a sequence of sibling nodes, in
\* document order
RECURSIVE AllSpans(_)
AllSpans(kids) ==
  IF kids = <<>> THEN <<>>
  ELSE LET h == Head(kids)
       IN (IF h.kind = "text" THEN <<>> ELSE <<h>> \o AllSpans(h.kids))
          \o AllSpans(Tail(kids))

SeqToSet(s) == {s[i] : i \in 1..Len(s)}

\* node.parentNode is not null: the text node is still in the document
IsAttached(d, id) ==
  \E e \in DOMAIN d : \E n \in SeqToSet(TextNodesOf(d[e])) : n.id = id

\* parentNode.replaceChild(fragment, node)
RECURSIVE replaceChild(_, _, _)
replaceChild(kids, id, fragment) ==
  IF kids = <<>> THEN <<>>
  ELSE LET h == Head(kids)
       IN (IF h.kind = "text"
           THEN (IF h.id = id THEN fragment ELSE <<h>>)
           ELSE <<[h EXCEPT !.kids = replaceChild(h.kids, id, fragment)]>>)
          \o replaceChild(Tail(kids), id, fragment)

\* Mutant of BuildFragment: lastIndex advances by the translation's length.
RECURSIVE BuildFragment_lastIndex(_, _, _, _, _, _)
BuildFragment_lastIndex(text, matches, wordLen, translatedWord, lastIndex, id) ==
  IF matches = <<>>
  THEN IF lastIndex < Len(text)
       THEN <<TextNode(id, SubSeq(text, lastIndex + 1, Len(text)))>>
       ELSE <<>>
  ELSE LET index == Head(matches) - 1
           word == SubSeq(text, index + 1, index + wordLen)
           before == IF index > lastIndex
                     THEN <<TextNode(id, SubSeq(text, lastIndex + 1, index))>>
                     ELSE <<>>
           sid == id + Len(before)
           span == createTranslatedWordSpan(
                     word, preserveCapitalization(word, translatedWord), sid)
       IN before \o <<span>>
          \o BuildFragment_lastIndex(text, Tail(matches), wordLen, translatedWord,
                                     index + Len(translatedWord), sid + 1)

\* replaceWordInNode, the loop over the matches: the text before each match,
\* the span of the match, and at the end the text after the last match.
\* lastIndex and match.index are 0-based as in the code.
RECURSIVE BuildFragment(_, _, _, _, _, _)
BuildFragment(text, matches, wordLen, translatedWord, lastIndex, id) ==
  IF matches = <<>>
  THEN IF lastIndex < Len(text)
       THEN <<TextNode(id, SubSeq(text, lastIndex + 1, Len(text)))>>
       ELSE <<>>
  ELSE LET index == Head(matches) - 1
           word == SubSeq(text, index + 1, index + wordLen)
           before == IF index > lastIndex
                     THEN <<TextNode(id, SubSeq(text, lastIndex + 1, index))>>
                     ELSE <<>>
           sid == id + Len(before)
           span == createTranslatedWordSpan(
                     word, preserveCapitalization(word, translatedWord), sid)
       IN before \o <<span>>
          \o BuildFragment(text, Tail(matches), wordLen, translatedWord,
                           index + wordLen, sid + 1)

\* replaceWordInNode up to the fragment: <<>> when the function returns early
\* (no text, or the word does not occur in the node)
Fragment(text, originalWord, translatedWord, id) ==
  LET matches == FindMatches(escapeRegex(originalWord), text, 1, TRUE)
  IN IF text = <<>> \/ matches = <<>> THEN <<>>
     ELSE BuildFragment(text, matches, Len(originalWord), translatedWord, 0, id)

\* Mutant of replaceWordInNode: the fragment built from a node that is no
\* longer in the document is appended to the first element.
replaceWordInNode_appends(d, nid, node, originalWord, translatedWord) ==
  LET fragment == Fragment(node.text, originalWord, translatedWord, nid)
  IN IF fragment = <<>> THEN [dom |-> d, nextId |-> nid]
     ELSE IF IsAttached(d, node.id)
     THEN [dom |-> [e \in DOMAIN d |-> replaceChild(d[e], node.id, fragment)],
           nextId |-> nid + Len(fragment)]
     ELSE [dom |-> [d EXCEPT ![1] = @ \o fragment],
           nextId |-> nid + Len(fragment)]

\* Mutant of replaceWordInNode: for a node that is no longer in the document,
\* the word is replaced in the first text node now in the document that holds
\* it, the text of a translated-word span included.
replaceWordInNode_liveNodes(d, nid, node, originalWord, translatedWord) ==
  LET holds(n) == Fragment(n.text, originalWord, translatedWord, nid) # <<>>
      live == SelectSeq(TextNodesOf(d[1]), holds)
      target == IF IsAttached(d, node.id) \/ live = <<>> THEN node ELSE Head(live)
      fragment == Fragment(target.text, originalWord, translatedWord, nid)
  IN IF fragment = <<>> \/ ~IsAttached(d, target.id) THEN [dom |-> d, nextId |-> nid]
     ELSE [dom |-> [e \in DOMAIN d |-> replaceChild(d[e], target.id, fragment)],
           nextId |-> nid + Len(fragment)]

\* replaceWordInNode(node, originalWord, translatedWord) on the document d:
\* node.parentNode?.replaceChild(fragment, node) does nothing on a node that
\* is no longer in the document
replaceWordInNode(d, nid, node, originalWord, translatedWord) ==
  LET fragment == Fragment(node.text, originalWord, translatedWord, nid)
  IN IF fragment = <<>> \/ ~IsAttached(d, node.id) THEN [dom |-> d, nextId |-> nid]
     ELSE [dom |-> [e \in DOMAIN d |-> replaceChild(d[e], node.id, fragment)],
           nextId |-> nid + Len(fragment)]

\* ------------------------------------------------------------------ reverter

\* Mutant of ClearKids: the text node holds the span's displayed text.
RECURSIVE ClearKids_keepsTranslation(_, _)
ClearKids_keepsTranslation(kids, id) ==
  IF kids = <<>> THEN <<>>
  ELSE LET h == Head(kids)
       IN IF h.kind = "text" THEN <<h>> \o ClearKids_keepsTranslation(Tail(kids), id)
          ELSE <<TextNode(id, TextContent(h.kids))>>
               \o ClearKids_keepsTranslation(Tail(kids), id + 1 + Len(AllSpans(h.kids)))

\* the forEach of clearTranslations over the spans found: a span whose
\* original-word attribute is a non-empty string is replaced by a new text node
\* holding it (the spans inside it leave the document with it); a span
\* without one stays, and the spans inside it are handled in turn.
\* The span found k-th gets the text node id + k - 1.
RECURSIVE ClearKids(_, _)
ClearKids(kids, id) ==
  IF kids = <<>> THEN <<>>
  ELSE LET h == Head(kids)
       IN IF h.kind = "text" THEN <<h>> \o ClearKids(Tail(kids), id)
          ELSE LET originalWord == getAttribute(h, OriginalAttribute)
                   new == IF originalWord # <<>>
                          THEN TextNode(id, originalWord)
                          ELSE [h EXCEPT !.kids = ClearKids(h.kids, id + 1)]
               IN <<new>> \o ClearKids(Tail(kids), id + 1 + Len(AllSpans(h.kids)))

\* the text of a sequence of sibling nodes with every span read as its
\* original-word attribute
RECURSIVE WithOriginals(_)
WithOriginals(kids) ==
  IF kids = <<>> THEN <<>>
  ELSE LET h == Head(kids)
       IN (IF h.kind = "text" THEN h.text ELSE getAttribute(h, OriginalAttribute))
          \o WithOriginals(Tail(kids))

RECURSIVE SpansBefore(_, _)
SpansBefore(d, e) ==
  IF e <= 1 THEN 0 ELSE SpansBefore(d, e - 1) + Len(AllSpans(d[e - 1]))

\* clearTranslationsInElement(element): count is translatedWords.length
clearTranslationsInElement(d, nid, element) ==
  [dom |-> [d EXCEPT ![element] = ClearKids(d[element], nid)],
   nextId |-> nid + Len(AllSpans(d[element])),
   count |-> Len(AllSpans(d[element]))]

\* clearTranslations(): the same over document.querySelectorAll
clearTranslations(d, nid) ==
  [dom |-> [e \in DOMAIN d |-> ClearKids(d[e], nid + SpansBefore(d, e))],
   nextId |-> nid + SpansBefore(d, Len(d) + 1),
   count |-> SpansBefore(d, Len(d) + 1)]

\* ------------------------------------------------------------------ sentences

IsTerminal(c) == c \in Terminals

\* the length of the longest run of characters of one class that starts at
\* the 1-based index i: "text" is [^.!?], "terminal" is [.!?], "space" is \s
RECURSIVE RunLen(_, _, _)
RunLen(text, i, class) ==
  IF i > Len(text) THEN 0
  ELSE LET c == text[i]
           inClass == CASE class = "text" -> ~IsTerminal(c)
                   [] class = "terminal" -> IsTerminal(c)
                   [] OTHER -> IsSpace(c)
       IN IF inClass THEN 1 + RunLen(text, i + 1, class) ELSE 0

\* the length of the match of /[^.!?]+[.!?]+(?:\s+|$)|[^.!?]+$/ at index i,
\* 0 when it does not match there
SentenceMatchLen(text, i) ==
  LET n == RunLen(text, i, "text")
      m == RunLen(text, i + n, "terminal")
      k == RunLen(text, i + n + m, "space")
  IN IF n = 0 THEN 0
     ELSE IF m > 0 /\ (k > 0 \/ i + n + m > Len(text)) THEN n + m + k
     ELSE IF i + n > Len(text) THEN n
     ELSE 0

\* extractSentences, the matchAll loop over one text node from index i
RECURSIVE SentencesOfNode(_, _)
SentencesOfNode(node, i) ==
  IF i > Len(node.text) THEN <<>>
  ELSE LET len == SentenceMatchLen(node.text, i)
           sentenceText == trim(SubSeq(node.text, i, i + len - 1))
       IN IF len = 0 THEN SentencesOfNode(node, i + 1)
          ELSE (IF sentenceText # <<>>
                THEN <<[text |-> sentenceText, node |-> node]>>
                ELSE <<>>)
               \o SentencesOfNode(node, i + len)

RECURSIVE extractSentences(_)
extractSentences(textNodes) ==
  IF textNodes = <<>> THEN <<>>
  ELSE SentencesOfNode(Head(textNodes), 1) \o extractSentences(Tail(textNodes))

\* batchSentences(sentences, batchSize) is called with 5
BatchSize == 5

\* sentences.map(s => s.text).join(" ")
RECURSIVE JoinTexts(_)
JoinTexts(sentences) ==
  IF sentences = <<>> THEN <<>>
  ELSE IF Len(sentences) = 1 THEN sentences[1].text
  ELSE sentences[1].text \o <<" ">> \o JoinTexts(Tail(sentences))

Min(a, b) == IF a < b THEN a ELSE b

Max(a, b) == IF a > b THEN a ELSE b

\* Mutant of batchSentences: each group takes one sentence more than
\* batchSize.
RECURSIVE batchSentences_oneMore(_, _)
batchSentences_oneMore(sentences, batchSize) ==
  IF sentences = <<>> THEN <<>>
  ELSE LET slice == SubSeq(sentences, 1, Min(batchSize + 1, Len(sentences)))
       IN <<[sentences |-> slice, combinedText |-> JoinTexts(slice)]>>
          \o batchSentences_oneMore(
               SubSeq(sentences, Len(slice) + 1, Len(sentences)), batchSize)

RECURSIVE batchSentences(_, _)
batchSentences(sentences, batchSize) ==
  IF sentences = <<>> THEN <<>>
  ELSE LET n == Min(batchSize, Len(sentences))
           slice == SubSeq(sentences, 1, n)
       IN <<[sentences |-> slice, combinedText |-> JoinTexts(slice)]>>
          \o batchSentences(SubSeq(sentences, n + 1, Len(sentences)), batchSize)

\* getContentElements: the content elements with non-blank text, in document
\* order
getContentElements(d) ==
  SelectSeq([e \in 1..Len(d) |-> e], LAMBDA e : trim(TextContent(d[e])) # <<>>)

\* getTextNodes(elements): the non-blank text nodes below the elements
RECURSIVE getTextNodes(_, _)
getTextNodes(d, elements) ==
  IF elements = <<>> THEN <<>>
  ELSE SelectSeq(TextNodesOf(d[Head(elements)]), LAMBDA n : trim(n.text) # <<>>)
       \o getTextNodes(d, Tail(elements))

\* ------------------------------------------------------------------ selector

\* text.match(/\b[\w']+\b/g): the maximal runs of word characters from index i
RECURSIVE MatchWords(_, _)
MatchWords(text, i) ==
  IF i > Len(text) THEN <<>>
  ELSE IF ~IsWordChar(text[i]) THEN MatchWords(text, i + 1)
  ELSE LET n == CHOOSE k \in 1..(Len(text) - i + 1) :
                  /\ \A j \in i..(i + k - 1) : IsWordChar(text[j])
                  /\ (i + k > Len(text) \/ ~IsWordChar(text[i + k]))
       IN <<SubSeq(text, i, i + n - 1)>> \o MatchWords(text, i + n)

\* DENSITY_RATIOS
DensityRatioLow == 50
DensityRatioMedium == 25
DensityRatioHigh == 20

\* Mutant of DENSITY_RATIOS: the ratios of low and high are exchanged.
DENSITY_RATIOS_swapped(density) ==
  CASE density = "low" -> DensityRatioHigh
    [] density = "medium" -> DensityRatioMedium
    [] OTHER -> DensityRatioLow

DENSITY_RATIOS(density) ==
  CASE density = "low" -> DensityRatioLow
    [] density = "medium" -> DensityRatioMedium
    [] OTHER -> DensityRatioHigh

\* Math.max(1, Math.round(n / densityRatio)) for n words: Math.round rounds
\* a half up
targetWordCountOf(n, density) ==
  LET ratio == DENSITY_RATIOS(density)
  IN Max(1, (2 * n + ratio) \div (2 * ratio))

\* targetWordCount for the words of a text
targetWordCount(text, density) ==
  targetWordCountOf(Len(MatchWords(text, 1)), density)

\* new RegExp(source) returns: an unescaped "(" with no ")" after it is an
\* unterminated group, a SyntaxError (no string of the model holds a ")")
RegExpCompiles(str) == \A i \in 1..Len(str) : str[i] # "("

\* validateWordPairs: the pairs whose original, lower-cased and put into a
\* pattern unescaped, is found in the lower-cased text
validateWordPairs(pairs, originalText) ==
  SelectSeq(pairs, LAMBDA pair :
    RegexTest(RawPattern(toLowerCase(pair.original)), toLowerCase(originalText), FALSE))

\* the callback of pairs.filter throws at the first pair whose pattern does
\* not compile
validateWordPairsThrows(pairs) ==
  \E i \in 1..Len(pairs) : ~RegExpCompiles(toLowerCase(pairs[i].original))

\* the entries of fallbackWordSelection's commonWords list that can be written
\* in the alphabet of the model
CommonWords == {<<"a">>}

\* fallbackWordSelection keeps the words of at least this length
MinFallbackLength == 3

\* Array.from(new Set(words)): the first occurrence of each word, in order
RECURSIVE Dedupe(_, _)
Dedupe(words, seen) ==
  IF words = <<>> THEN <<>>
  ELSE IF Head(words) \in seen THEN Dedupe(Tail(words), seen)
  ELSE <<Head(words)>> \o Dedupe(Tail(words), seen \cup {Head(words)})

\* one word put into a list sorted by length; Array.prototype.sort is stable
RECURSIVE InsertByLength(_, _, _)
InsertByLength(word, sorted, ascending) ==
  IF sorted = <<>> THEN <<word>>
  ELSE IF (ascending /\ Len(Head(sorted)) <= Len(word))
          \/ (~ascending /\ Len(Head(sorted)) >= Len(word))
       THEN <<Head(sorted)>> \o InsertByLength(word, Tail(sorted), ascending)
       ELSE <<word>> \o sorted

RECURSIVE SortByLength(_, _)
SortByLength(words, ascending) ==
  IF words = <<>> THEN <<>>
  ELSE InsertByLength(words[Len(words)],
                      SortByLength(SubSeq(words, 1, Len(words) - 1), ascending),
                      ascending)

\* fallbackWordSelection(sentence, targetCount, config): the heuristic
\* selection of the sentence-based Selector
fallbackWordSelection(sentence, targetCount, difficulty) ==
  LET words == MatchWords(sentence, 1)
      kept == SelectSeq(words, LAMBDA word :
                Len(word) >= MinFallbackLength /\ toLowerCase(word) \notin CommonWords)
      candidates == Dedupe([i \in 1..Len(kept) |-> toLowerCase(kept[i])], {})
      sorted == CASE difficulty = "beginner" -> SortByLength(candidates, TRUE)
                  [] difficulty = "advanced" -> SortByLength(candidates, FALSE)
                  [] OTHER -> candidates
  IN SubSeq(sorted, 1, Min(targetCount, Len(sorted)))

\* ------------------------------------------------------------------
\* The content script: the translation session, the services, the message
\* handlers and the translatePage runs.

VARIABLES isActive, abortController, abortedSignals, storage, svc, inits,
          handlers, runs, events, faults

MaxEvents == 2
MaxInits == 2
MaxRuns == 2
MaxFaults == 1

Languages == {"French", "Spanish"}

\* DEFAULT_CONFIG
DefaultDifficulty == "beginner"
DefaultDensity == "high"

\* the text of the content elements of the page: the last one holds one
\* sentence, every other one five
PageText(e) ==
  IF e < NumElements
  THEN <<"a", "b", "a", " ", "a", ".", " ", "b", ".", " ", "b", ".", " ",
         "b", ".", " ", "b", ".">>
  ELSE <<"a", "b", "a", " ", "b", ".">>

\* what the Translator makes of a word: the models of the two languages are
\* told apart by the first letter of their output
LanguageMark(language) == IF language = "French" THEN "f" ELSE "s"

Translate(language, word) == <<LanguageMark(language)>> \o word

\* the language a span's translation is in
SpanLanguage(span) ==
  LET t == toLowerCase(getAttribute(span, "data-translation"))
  IN IF t # <<>> /\ t[1] = LanguageMark("French") THEN "French" ELSE "Spanish"

\* the word lists the language model may answer with: a word of the text, or
\* a word that is not in the text followed by one that is
SelectorAnswers == {<< <<"a", "b", "a">> >>, << <<"b", "b">>, <<"b">> >>}

WordPairs(answer, language) ==
  [i \in 1..Len(answer) |->
     [original |-> answer[i], translated |-> Translate(language, answer[i])]]

\* TranslationState.shouldContinue()
shouldContinue_signalOnly ==
  abortController = 0 \/ abortController \notin abortedSignals

shouldContinue ==
  isActive /\ (abortController = 0 \/ abortController \notin abortedSignals)

\* TranslationService.isInitialized()
isInitialized ==
  /\ svc.config # "none"
  /\ svc.currentLanguage # "none"
  /\ svc.session
  /\ svc.translator # "none"

\* TranslationService.reset(), with PromptService.reset() and
\* TranslatorService.reset()
\* (resets counts the calls: it is history, not a field of the service)
reset(s) ==
  [s EXCEPT !.config = "none", !.currentLanguage = "none", !.initPromise = 0,
            !.session = FALSE, !.translator = "none", !.resets = @ + 1]

\* Mutant of initializeStarted: the memoized promise is never found.
initializeStarted_never(s) == FALSE

\* TranslationService.initialize(): if (this.initPromise) return it
initializeStarted(s) == s.initPromise # 0

IdleRun ==
  [pc |-> "idle", batches |-> <<>>, bi |-> 0, outcome |-> <<>>,
   language |-> "none", txLanguage |-> "none", selected |-> <<>>,
   selectedBatch |-> 0, selectorThrew |-> FALSE, stopped |-> FALSE,
   superseded |-> FALSE,
   continuedAfter |-> FALSE, insertedAfter |-> FALSE, cancelled |-> FALSE]

InFlight(run) == run.pc \in {"awaitTranslate", "awaitSelect"}

\* a call of shouldContinue() by a run, and what the run has seen of it
Checked(run, sc) ==
  [run EXCEPT !.continuedAfter = @ \/ (run.superseded /\ sc),
              !.cancelled = @ \/ ~sc]

\* Mutant of IsAbortError: every error ends the loop.
IsAbortError_any(error) == TRUE

\* the test in the catch of translateAndReplaceBatches
IsAbortError(error) == error = "AbortError"

\* translateAndReplaceBatches from batch b up to its next await: sc is
\* shouldContinue() and translator the Translator of the moment.
\* processBatch throws at once when there is no Translator.
RECURSIVE translateAndReplaceBatches(_, _, _, _)
RECURSIVE Caught(_, _, _, _, _)
translateAndReplaceBatches(run, b, sc, translator) ==
  IF b > Len(run.batches) \/ ~sc
  THEN [Checked(run, sc) EXCEPT !.pc = "done", !.bi = b]
  ELSE IF translator = "none"
       THEN Caught(Checked(run, sc), b, "Error", sc, translator)
       ELSE [Checked(run, sc) EXCEPT !.pc = "awaitTranslate", !.bi = b,
                                     !.txLanguage = translator]

\* the catch around processBatch: a cancellation ends the loop, any other
\* error is logged and the loop goes on with the next batch
Caught(run, b, error, sc, translator) ==
  IF IsAbortError(error)
  THEN [run EXCEPT !.pc = "done", !.bi = b]
  ELSE translateAndReplaceBatches([run EXCEPT !.outcome[b] = "failed"],
                                  b + 1, sc, translator)

\* processBatch after translatorService.translateText has settled
processBatchTranslated(run, result, sc, s) ==
  LET b == run.bi
  IN CASE result = "error" -> Caught(run, b, "Error", sc, s.translator)
       [] result = "empty" ->
            translateAndReplaceBatches([run EXCEPT !.outcome[b] = "empty"],
                                       b + 1, sc, s.translator)
       [] OTHER ->
            IF ~sc
            THEN Caught([Checked(run, sc) EXCEPT !.outcome[b] = "aborted"],
                        b, "AbortError", sc, s.translator)
            ELSE IF ~s.session
            THEN Caught(Checked(run, sc), b, "Error", sc, s.translator)
            ELSE [Checked(run, sc) EXCEPT !.pc = "awaitSelect"]

\* PromptService.selectWordsFromBatch once session.prompt has settled: the
\* validated pairs of the answer, or no pair when the call or the parsing of
\* its answer threw
selectWordsFromBatch(answer, threw, originalText, language) ==
  IF threw \/ validateWordPairsThrows(WordPairs(answer, language)) THEN <<>>
  ELSE validateWordPairs(WordPairs(answer, language), originalText)

\* replaceWordsInSentence: every pair on the sentence's node
RECURSIVE replaceWordsInSentence(_, _, _, _)
replaceWordsInSentence(d, nid, sentence, wordPairs) ==
  IF wordPairs = <<>> THEN [dom |-> d, nextId |-> nid]
  ELSE LET pair == Head(wordPairs)
           r == replaceWordInNode(d, nid, sentence.node, pair.original, pair.translated)
       IN replaceWordsInSentence(r.dom, r.nextId, sentence, Tail(wordPairs))

\* batch.sentences.forEach(replaceWordsInSentence)
RECURSIVE replaceWordsInBatch(_, _, _, _)
replaceWordsInBatch(d, nid, sentences, wordPairs) ==
  IF sentences = <<>> THEN [dom |-> d, nextId |-> nid]
  ELSE LET r == replaceWordsInSentence(d, nid, Head(sentences), wordPairs)
       IN replaceWordsInBatch(r.dom, r.nextId, Tail(sentences), wordPairs)

\* processBatch after promptService.selectWordsFromBatch has settled, the
\* DOM aside
processBatchSelected(run, wordPairs, threw, changed, sc, s) ==
  LET b == run.bi
      seen == [run EXCEPT !.selectorThrew = threw, !.selectedBatch = b,
                          !.selected = [i \in 1..Len(wordPairs) |->
                                          wordPairs[i].original]]
  IN IF wordPairs = <<>>
     THEN translateAndReplaceBatches([seen EXCEPT !.outcome[b] = "noWords"],
                                     b + 1, sc, s.translator)
     ELSE IF ~sc
     THEN Caught([Checked(seen, sc) EXCEPT !.outcome[b] = "aborted"],
                 b, "AbortError", sc, s.translator)
     ELSE translateAndReplaceBatches(
            [Checked(seen, sc) EXCEPT
               !.outcome[b] = IF changed THEN "mutated" ELSE "unchanged",
               !.insertedAfter = @ \/ (run.superseded /\ changed)],
            b + 1, sc, s.translator)

\* translatePage up to its first await on a page whose content is all
\* visible: the batches of the text now in the document, and the first call
NewRun(d, s) ==
  LET textNodes == getTextNodes(d, getContentElements(d))
      batches == batchSentences(extractSentences(textNodes), BatchSize)
  IN translateAndReplaceBatches(
       [IdleRun EXCEPT !.batches = batches,
                       !.outcome = [b \in 1..Len(batches) |-> "pending"],
                       !.language = s.config],
       1, TRUE, s.translator)

NextRun == Cardinality({r \in 1..MaxRuns : runs[r].pc # "idle"}) + 1

NextInit == Cardinality({k \in 1..MaxInits : inits[k].pc # "idle"}) + 1

\* TranslationState.start() at the head of translatePage: the flag is set and
\* a new controller replaces the current one, which is not aborted
translatePage ==
  IF ~isInitialized
  THEN UNCHANGED <<isActive, abortController, runs>>
  ELSE /\ NextRun <= MaxRuns
       /\ isActive' = TRUE
       /\ abortController' = NextRun
       /\ runs' = [r \in 1..MaxRuns |->
                     IF r = NextRun THEN NewRun(dom, svc)
                     ELSE IF InFlight(runs[r]) /\ ~runs[r].stopped
                     THEN [runs[r] EXCEPT !.superseded = TRUE]
                     ELSE runs[r]]

\* Mutant of stopTranslation: stop() aborts the controller and keeps it.
stopTranslation_keepsController ==
  /\ isActive' = FALSE
  /\ abortedSignals' = IF abortController # 0
                       THEN abortedSignals \cup {abortController}
                       ELSE abortedSignals
  /\ abortController' = abortController
  /\ runs' = [r \in 1..MaxRuns |->
                IF InFlight(runs[r]) THEN [runs[r] EXCEPT !.stopped = TRUE]
                ELSE runs[r]]

\* stopTranslation(): TranslationState.stop()
stopTranslation ==
  /\ isActive' = FALSE
  /\ abortedSignals' = IF abortController # 0
                       THEN abortedSignals \cup {abortController}
                       ELSE abortedSignals
  /\ abortController' = 0
  /\ runs' = [r \in 1..MaxRuns |->
                IF InFlight(runs[r]) THEN [runs[r] EXCEPT !.stopped = TRUE]
                ELSE runs[r]]

\* the record of the last operation on the document when it is checked on
\* its own
NoNode == TextNode(0, <<>>)

NoOp ==
  [op |-> "none", prevOp |-> "none", prevScope |-> 0, node |-> NoNode,
   attached |-> FALSE, word |-> <<>>, translated |-> <<>>, fragment |-> <<>>,
   before |-> <<>>, scope |-> 0, count |-> 0, spansBefore |-> 0,
   changed |-> FALSE]

\* the last application of a function that is checked on its own inputs
VARIABLES calc

NoCalc == [fn |-> "none"]

pureVars == <<calc>>

\* chrome.storage.local under the key "languages", for one language: the
\* stored words with their timesEncountered (0: not stored) and
\* stats.totalWordsEncountered; and the calls of recordWordEncounter
VARIABLES languages, calls

MaxCalls == 2

\* the words an encounter is recorded for
EnglishWords == {<<"a">>, <<"A">>, <<"b">>}

WordIds == {toLowerCase(w) : w \in EnglishWords}

\* the entry that getWord, saveWord and updateStats see or create when the
\* language has none
NoLanguageData == [words |-> [w \in WordIds |-> 0], totalWordsEncountered |-> 0]

\* a call of recordWordEncounter that has not begun: existingWord, the
\* languages object and the stat read by the call's last get
IdleCall ==
  [pc |-> "idle", english |-> <<>>, wordId |-> <<>>, existingWord |-> 0,
   read |-> NoLanguageData, currentValue |-> 0]

StorageIdle ==
  /\ languages = NoLanguageData
  /\ calls = [c \in 1..MaxCalls |-> IdleCall]

\* The images of the page (processed is membership in processedImages;
\* describes and added are history: the describeImage calls issued and the
\* overlays ever added for the image) and the calls of translatePage as far
\* as the images are concerned
VARIABLES images, imageCalls

NumImages == 11

MaxImageCalls == 2

IdleImage ==
  [valid |-> TRUE, processed |-> FALSE, overlays |-> 0, container |-> FALSE,
   describes |-> 0, added |-> 0]

IdleImageCall ==
  [pc |-> "idle", list |-> <<>>, idx |-> 0, stopped |-> FALSE]

ImagesIdle ==
  /\ images = [i \in 1..NumImages |-> IdleImage]
  /\ imageCalls = [c \in 1..MaxImageCalls |-> IdleImageCall]

\* One call of translatePage followed step by step, the loop of
\* RegExp.prototype.exec in replaceWordInNode included (matches is the
\* number of entries pushed, modulo MatchesModulus)
VARIABLES pass

IdlePass ==
  [pc |-> "idle", bi |-> 0, pairs |-> <<>>, pi |-> 0, lastIndex |-> 0,
   matches |-> 0]

auxVars == <<languages, calls, images, imageCalls, pass>>

AuxIdle == StorageIdle /\ ImagesIdle /\ pass = IdlePass

\* A page with content below the viewport: the number of its content
\* elements, the scroll position, the calls of translatePage with their
\* ProgressiveTextLoader, the invocations of the loader's callback, and the
\* replacements made (history)
VARIABLES pageSize, scrollY, walks, tasks, marks

NumPageElements == 4

PageElements == 1..NumPageElements

MaxWalks == 2

Walks == 1..MaxWalks

\* a call of translatePage that has not begun (superseded and stopped are
\* history: start() or stop() was called after this call's start())
IdleWalk ==
  [pc |-> "idle", visible |-> {}, hidden |-> {}, bi |-> 0, step |-> "none",
   loader |-> FALSE, observed |-> {}, processed |-> {},
   lastEntry |-> [e \in PageElements |-> "none"],
   superseded |-> FALSE, stopped |-> FALSE]

\* the callback of a loader for one element, not invoked (order, invocations
\* and late are history)
IdleTask ==
  [pc |-> "none", bi |-> 0, order |-> <<>>, invocations |-> 0, late |-> FALSE]

LazyIdle ==
  /\ pageSize = 0
  /\ scrollY = 0
  /\ walks = [r \in Walks |-> IdleWalk]
  /\ tasks = [r \in Walks |-> [e \in PageElements |-> IdleTask]]
  /\ marks = {}

lazyVars == <<pageSize, scrollY, walks, tasks, marks>>

sessionVars == <<isActive, abortController, abortedSignals>>

scriptVars ==
  <<isActive, abortController, abortedSignals, storage, svc, inits, handlers,
    runs, events, faults>>

domOnlyVars == <<refs, last, orig, ops>>

\* what the content script leaves alone
offScriptVars == <<domOnlyVars, pureVars, lazyVars, auxVars>>

\* (resets, joined and duringRun are history: the number of reset() calls
\* before the handler called initialize(), whether that call found a promise
\* that had not settled, whether a run was in flight when the handler began)
NoHandler ==
  [kind |-> "none", pc |-> "idle", init |-> 0, run |-> 0, language |-> "none",
   duringRun |-> FALSE, resets |-> 0, joined |-> FALSE]

IdleInit == [pc |-> "idle", language |-> "none", resets |-> 0]

Init ==
  /\ dom = [e \in Elements |-> <<TextNode(e, PageText(e))>>]
  /\ nextId = NumElements + 1
  /\ refs = {}
  /\ last = NoOp
  /\ orig = [e \in Elements |-> PageText(e)]
  /\ ops = 0
  /\ isActive = FALSE
  /\ abortController = 0
  /\ abortedSignals = {}
  /\ storage = [activeLanguage |-> "French", translationEnabled |-> TRUE]
  /\ svc = [config |-> "none", currentLanguage |-> "none", initPromise |-> 0,
            session |-> FALSE, translator |-> "none", resets |-> 0]
  /\ inits = [k \in 1..MaxInits |-> IdleInit]
  /\ handlers = [h \in 1..MaxEvents |-> NoHandler]
  /\ runs = [r \in 1..MaxRuns |-> IdleRun]
  /\ events = 0
  /\ faults = 0
  /\ calc = NoCalc
  /\ AuxIdle
  /\ LazyIdle

\* initializeAndTranslate(), at startup or on UPDATE_TRANSLATION_STATE with
\* enabled = true (the popup has stored the flag before it sends the message):
\* translationService.initialize() returns the pending or settled promise, or
\* starts the initialization
HandleToggleOn ==
  /\ events < MaxEvents
  /\ events' = events + 1
  /\ storage' = [storage EXCEPT !.translationEnabled = TRUE]
  /\ IF initializeStarted(svc)
     THEN /\ handlers' = [handlers EXCEPT ![events + 1] =
                            [NoHandler EXCEPT
                               !.kind = "toggleOn", !.pc = "awaitInit",
                               !.init = svc.initPromise,
                               !.resets = svc.resets,
                               !.joined = inits[svc.initPromise].pc
                                            \notin {"resolved", "rejected"}]]
          /\ UNCHANGED <<svc, inits>>
     ELSE /\ NextInit <= MaxInits
          /\ handlers' = [handlers EXCEPT ![events + 1] =
                            [NoHandler EXCEPT !.kind = "toggleOn", !.pc = "awaitInit",
                                               !.init = NextInit,
                                               !.resets = svc.resets]]
          /\ svc' = [svc EXCEPT !.initPromise = NextInit]
          /\ inits' = [inits EXCEPT ![NextInit].pc = "loadConfig",
                                    ![NextInit].resets = svc.resets]
  /\ UNCHANGED <<dom, nextId, sessionVars, runs, faults, offScriptVars>>

\* handleToggleChange(false): stopTranslation(); clearTranslations()
HandleToggleOff ==
  /\ events < MaxEvents
  /\ events' = events + 1
  /\ storage' = [storage EXCEPT !.translationEnabled = FALSE]
  /\ stopTranslation
  /\ LET r == clearTranslations(dom, nextId)
     IN dom' = r.dom /\ nextId' = r.nextId
  /\ UNCHANGED <<svc, inits, handlers, faults, offScriptVars>>

\* handleLanguageChange(newLanguage) up to its first await (the popup has
\* stored the language before it sends the message): stopTranslation();
\* clearTranslations(); translationService.reset(); switchLanguage begins
HandleLanguageChange ==
  /\ events < MaxEvents
  /\ events' = events + 1
  /\ \E newLanguage \in Languages \ {storage.activeLanguage} :
       /\ storage' = [storage EXCEPT !.activeLanguage = newLanguage]
       /\ handlers' = [handlers EXCEPT ![events + 1] =
                         [NoHandler EXCEPT !.kind = "languageChange",
                                            !.pc = "setConfig",
                                            !.language = newLanguage,
                                            !.duringRun =
                                              \E r \in 1..MaxRuns : InFlight(runs[r])]]
  /\ stopTranslation
  /\ LET r == clearTranslations(dom, nextId)
     IN dom' = r.dom /\ nextId' = r.nextId
  /\ svc' = reset(svc)
  /\ UNCHANGED <<inits, faults, offScriptVars>>

\* switchLanguage: setTranslationConfig({activeLanguage}) has written
SetConfigDone(h) ==
  /\ handlers[h].pc = "setConfig"
  /\ storage' = [storage EXCEPT !.activeLanguage = handlers[h].language]
  /\ handlers' = [handlers EXCEPT ![h].pc = "loadConfig"]
  /\ UNCHANGED <<dom, nextId, sessionVars, svc, inits, runs, events, faults,
                 offScriptVars>>

\* switchLanguage: loadConfig() has returned; this.reset();
\* this.currentLanguage = newLanguage; this.initialize() starts anew
LoadConfigDone(h) ==
  /\ handlers[h].pc = "loadConfig"
  /\ NextInit <= MaxInits
  /\ svc' = [reset(svc) EXCEPT !.currentLanguage = handlers[h].language,
                               !.initPromise = NextInit]
  /\ inits' = [inits EXCEPT ![NextInit].pc = "loadConfig",
                            ![NextInit].resets = svc'.resets]
  /\ handlers' = [handlers EXCEPT ![h].pc = "awaitInit", ![h].init = NextInit,
                                  ![h].resets = svc'.resets]
  /\ UNCHANGED <<dom, nextId, sessionVars, storage, runs, events, faults,
                 offScriptVars>>

\* initialize: loadConfig() has returned
InitConfigLoaded(k) ==
  /\ inits[k].pc = "loadConfig"
  /\ svc' = [svc EXCEPT !.config = storage.activeLanguage,
                        !.currentLanguage = storage.activeLanguage]
  /\ inits' = [inits EXCEPT ![k].pc = "services",
                            ![k].language = storage.activeLanguage]
  /\ UNCHANGED <<dom, nextId, sessionVars, storage, handlers, runs, events,
                 faults, offScriptVars>>

\* initialize: promptService.initialize and translatorService.initialize
\* have resolved; each keeps what an earlier call since the last reset made
InitServicesReady(k) ==
  /\ inits[k].pc = "services"
  /\ svc' = [svc EXCEPT !.session = TRUE,
                        !.translator = IF @ = "none" THEN inits[k].language ELSE @]
  /\ inits' = [inits EXCEPT ![k].pc = "resolved"]
  /\ UNCHANGED <<dom, nextId, sessionVars, storage, handlers, runs, events,
                 faults, offScriptVars>>

\* initialize: one of the two APIs is not available
InitServicesFail(k) ==
  /\ inits[k].pc = "services"
  /\ faults < MaxFaults
  /\ faults' = faults + 1
  /\ inits' = [inits EXCEPT ![k].pc = "rejected"]
  /\ UNCHANGED <<dom, nextId, sessionVars, storage, svc, handlers, runs, events,
                 offScriptVars>>

\* a handler whose await of translationService.initialize() or of
\* switchLanguage() rejects: its catch logs the error
InitRejected(h) ==
  /\ handlers[h].pc = "awaitInit"
  /\ inits[handlers[h].init].pc = "rejected"
  /\ handlers' = [handlers EXCEPT ![h].pc = "done"]
  /\ UNCHANGED <<dom, nextId, sessionVars, storage, svc, inits, runs, events,
                 faults, offScriptVars>>

\* the handler's await of translatePage(): translatePage throws at once when
\* the services are not initialized, and the handler's catch logs it
AwaitPage(h) ==
  handlers' = [handlers EXCEPT
                 ![h].pc = IF isInitialized THEN "awaitPage" ELSE "done",
                 ![h].run = IF isInitialized THEN NextRun ELSE 0]

\* initializeAndTranslate: the services are ready; translatePage()
ToggleOnTranslate(h) ==
  /\ handlers[h].kind = "toggleOn"
  /\ handlers[h].pc = "awaitInit"
  /\ inits[handlers[h].init].pc = "resolved"
  /\ translatePage
  /\ AwaitPage(h)
  /\ UNCHANGED <<dom, nextId, abortedSignals, storage, svc, inits, events,
                 faults, offScriptVars>>

\* handleLanguageChange: switchLanguage has resolved; the handler reads the
\* stored configuration
SwitchLanguageDone(h) ==
  /\ handlers[h].kind = "languageChange"
  /\ handlers[h].pc = "awaitInit"
  /\ inits[handlers[h].init].pc = "resolved"
  /\ handlers' = [handlers EXCEPT ![h].pc = "getEnabled"]
  /\ UNCHANGED <<dom, nextId, sessionVars, storage, svc, inits, runs, events,
                 faults, offScriptVars>>

\* handleLanguageChange: translatePage() if translation is enabled
LanguageChangeTranslate(h) ==
  /\ handlers[h].pc = "getEnabled"
  /\ IF storage.translationEnabled
     THEN translatePage /\ AwaitPage(h)
     ELSE /\ handlers' = [handlers EXCEPT ![h].pc = "done"]
          /\ UNCHANGED <<isActive, abortController, runs>>
  /\ UNCHANGED <<dom, nextId, abortedSignals, storage, svc, inits, events,
                 faults, offScriptVars>>

\* the handler has returned: its translatePage() has, or it had nothing to
\* await
Completed(h) ==
  \/ handlers[h].pc = "done"
  \/ handlers[h].pc = "awaitPage" /\ runs[handlers[h].run].pc = "done"

\* a run's translatorService.translateText(combinedText) settles: with the
\* translation, with an empty string, or with an error
TranslateSettles(r) ==
  /\ runs[r].pc = "awaitTranslate"
  /\ \E result \in {"text", "empty", "error"} :
       /\ result # "text" => faults < MaxFaults
       /\ faults' = IF result = "text" THEN faults ELSE faults + 1
       /\ runs' = [runs EXCEPT ![r] =
                     processBatchTranslated(runs[r], result, shouldContinue, svc)]
  /\ UNCHANGED <<dom, nextId, sessionVars, storage, svc, inits, handlers, events,
                 offScriptVars>>

\* a run's promptService.selectWordsFromBatch settles, and the batch's words
\* are replaced
SelectSettles(r) ==
  /\ runs[r].pc = "awaitSelect"
  /\ \E answer \in SelectorAnswers, threw \in BOOLEAN :
       LET run == runs[r]
           batch == run.batches[run.bi]
           wordPairs == selectWordsFromBatch(answer, threw, batch.combinedText,
                                             run.txLanguage)
           replaced == IF wordPairs # <<>> /\ shouldContinue
                       THEN replaceWordsInBatch(dom, nextId, batch.sentences, wordPairs)
                       ELSE [dom |-> dom, nextId |-> nextId]
       IN /\ threw => faults < MaxFaults /\ answer = CHOOSE a \in SelectorAnswers : TRUE
          /\ faults' = IF threw THEN faults + 1 ELSE faults
          /\ dom' = replaced.dom
          /\ nextId' = replaced.nextId
          /\ runs' = [runs EXCEPT ![r] =
                        processBatchSelected(run, wordPairs, threw,
                                             replaced.dom # dom, shouldContinue, svc)]
  /\ UNCHANGED <<sessionVars, storage, svc, inits, handlers, events, offScriptVars>>

vars ==
  <<dom, nextId, refs, last, orig, ops, isActive, abortController,
    abortedSignals, storage, svc, inits, handlers, runs, events, faults, calc,
    pageSize, scrollY, walks, tasks, marks, languages, calls, images,
    imageCalls, pass>>

Next ==
  \/ HandleToggleOn
  \/ HandleToggleOff
  \/ HandleLanguageChange
  \/ \E h \in 1..MaxEvents :
       \/ SetConfigDone(h)
       \/ LoadConfigDone(h)
       \/ InitRejected(h)
       \/ ToggleOnTranslate(h)
       \/ SwitchLanguageDone(h)
       \/ LanguageChangeTranslate(h)
  \/ \E k \in 1..MaxInits :
       \/ InitConfigLoaded(k)
       \/ InitServicesReady(k)
       \/ InitServicesFail(k)
  \/ \E r \in 1..MaxRuns :
       \/ TranslateSettles(r)
       \/ SelectSettles(r)

Spec == Init /\ [][Next]_vars

\* ------------------------------------------------------------------
\* The DOM mutator and the reverter on their own: a document of text nodes, a
\* scan that takes references to its text nodes, pairs applied to the
\* referenced nodes, and reversions.

MaxTextLen == 3

MaxDomOps == 3

TextAlphabet == {"a", "A", "1", "eacute", " ", "."}

SeqsUpTo(S, n) == UNION {[1..k -> S] : k \in 0..n}

\* the texts of the first content element
Texts == SeqsUpTo(TextAlphabet, MaxTextLen) \ {<<>>}

\* the text of every other content element
OtherText == <<"A", " ", "a", ".">>

\* the pairs a Selector may hand to the mutator
Words == {<<"a">>, <<"1", "a">>, <<"f", "a">>}

Translations == {<<"f", "a">>, <<>>}

\* getTextNodes over every content element: the text nodes whose trimmed text
\* is not empty
ScanTextNodes(d) ==
  UNION {{n \in SeqToSet(TextNodesOf(d[e])) : trim(n.text) # <<>>} : e \in DOMAIN d}

\* what the mutator and the reverter leave alone
offDomVars == <<scriptVars, pureVars, lazyVars, auxVars>>

DomInit ==
  /\ \E t \in Texts :
       dom = [e \in Elements |-> <<TextNode(e, IF e = 1 THEN t ELSE OtherText)>>]
  /\ nextId = NumElements + 1
  /\ refs = {}
  /\ last = NoOp
  /\ orig = [e \in Elements |-> TextContent(dom[e])]
  /\ ops = 0
  /\ isActive = FALSE
  /\ abortController = 0
  /\ abortedSignals = {}
  /\ storage = [activeLanguage |-> "French", translationEnabled |-> TRUE]
  /\ svc = [config |-> "none", currentLanguage |-> "none", initPromise |-> 0,
            session |-> FALSE, translator |-> "none", resets |-> 0]
  /\ inits = [k \in 1..MaxInits |-> IdleInit]
  /\ handlers = [h \in 1..MaxEvents |-> NoHandler]
  /\ runs = [r \in 1..MaxRuns |-> IdleRun]
  /\ events = 0
  /\ faults = 0
  /\ calc = NoCalc
  /\ AuxIdle
  /\ LazyIdle

\* a scan of the page takes references to the text nodes now in the document
DExtract ==
  /\ refs # ScanTextNodes(dom)
  /\ refs' = ScanTextNodes(dom)
  /\ UNCHANGED <<dom, nextId, last, orig, ops, offDomVars>>

\* replaceWordInNode(node, originalWord, translatedWord) on a referenced node
DReplace ==
  /\ ops < MaxDomOps
  /\ \E node \in refs, w \in Words, t \in Translations :
       LET r == replaceWordInNode(dom, nextId, node, w, t)
           fragment == Fragment(node.text, w, t, nextId)
       IN /\ dom' = r.dom
          /\ nextId' = r.nextId
          /\ last' = IF fragment = <<>>
                     THEN [NoOp EXCEPT !.op = "replace"]
                     ELSE [NoOp EXCEPT !.op = "replace", !.node = node,
                                       !.attached = IsAttached(dom, node.id),
                                       !.word = w, !.translated = t,
                                       !.fragment = fragment,
                                       !.before =
                                         [e \in Elements |-> WithOriginals(dom[e])],
                                       !.changed = r.dom # dom]
  /\ ops' = ops + 1
  /\ UNCHANGED <<refs, orig, offDomVars>>

\* clearTranslations()
DClear ==
  /\ ops < MaxDomOps
  /\ LET r == clearTranslations(dom, nextId)
     IN /\ dom' = r.dom
        /\ nextId' = r.nextId
        /\ last' = [NoOp EXCEPT !.op = "clear", !.prevOp = last.op,
                                !.count = r.count,
                                !.spansBefore = SpansBefore(dom, NumElements + 1),
                                !.changed = r.dom # dom]
  /\ ops' = ops + 1
  /\ UNCHANGED <<refs, orig, offDomVars>>

\* clearTranslationsInElement(element)
DClearInElement ==
  /\ ops < MaxDomOps
  /\ \E element \in Elements :
       LET r == clearTranslationsInElement(dom, nextId, element)
       IN /\ dom' = r.dom
          /\ nextId' = r.nextId
          /\ last' = [NoOp EXCEPT !.op = "clearIn", !.prevOp = last.op,
                                  !.prevScope = last.scope,
                                  !.scope = element, !.count = r.count,
                                  !.spansBefore = Len(AllSpans(dom[element])),
                                  !.changed = r.dom # dom]
  /\ ops' = ops + 1
  /\ UNCHANGED <<refs, orig, offDomVars>>

domVars == <<dom, nextId, refs, last, orig, ops, offDomVars>>

DomNext == DExtract \/ DReplace \/ DClear \/ DClearInElement

SpecDom == DomInit /\ [][DomNext]_domVars

\* ------------------------------------------------------------------
\* The functions of the extractor and of the selector on their own inputs:
\* each action applies one function to an input and records the application.

\* word counts of a batch text
MaxWordCount == 60

Densities == {"low", "medium", "high"}

\* the content script before it has done anything
ScriptIdle ==
  /\ isActive = FALSE
  /\ abortController = 0
  /\ abortedSignals = {}
  /\ storage = [activeLanguage |-> "French", translationEnabled |-> TRUE]
  /\ svc = [config |-> "none", currentLanguage |-> "none", initPromise |-> 0,
            session |-> FALSE, translator |-> "none", resets |-> 0]
  /\ inits = [k \in 1..MaxInits |-> IdleInit]
  /\ handlers = [h \in 1..MaxEvents |-> NoHandler]
  /\ runs = [r \in 1..MaxRuns |-> IdleRun]
  /\ events = 0
  /\ faults = 0

\* a document without text and without an operation on it
DomIdle ==
  /\ dom = [e \in Elements |-> <<>>]
  /\ nextId = 1
  /\ refs = {}
  /\ last = NoOp
  /\ orig = [e \in Elements |-> <<>>]
  /\ ops = 0

PureInit ==
  /\ DomIdle
  /\ ScriptIdle
  /\ calc = NoCalc
  /\ AuxIdle
  /\ LazyIdle

\* selectWordsFromBatch computes targetCount for a text of n words under each
\* density
ApplyTargetWordCount ==
  /\ \E n \in 0..MaxWordCount :
       calc' = [fn |-> "targetWordCount", n |-> n,
                count |-> [density \in Densities |-> targetWordCountOf(n, density)]]
  /\ UNCHANGED <<dom, nextId, domOnlyVars, scriptVars, lazyVars, auxVars>>

\* the originals a language model may answer with: words of the text, a
\* word with a "." and a word with a "("
AnswerWords == {<<"a">>, <<"b">>, <<"a", ".", "a">>, <<"b", "(">>}

MaxAnswerLen == 2

\* the combined texts of a batch
BatchTexts == {<<"a", " ", "B", ".">>, <<"a", "b", "a", ".">>}

\* selectWordsFromBatch on a batch text, for an answer of the language model:
\* JSON.parse, validateWordPairs and the catch around both
ApplySelectWords ==
  /\ \E answer \in SeqsUpTo(AnswerWords, MaxAnswerLen), text \in BatchTexts :
       calc' = [fn |-> "selectWordsFromBatch",
                pairs |-> WordPairs(answer, "French"),
                text |-> text,
                result |-> selectWordsFromBatch(answer, FALSE, text, "French")]
  /\ UNCHANGED <<dom, nextId, domOnlyVars, scriptVars, lazyVars, auxVars>>

\* the texts of the first text node of a content element: two words in one
\* sentence, one word in two sentences, one word twice in one sentence
NodeTexts ==
  {<<"a", " ", "b", ".">>, <<"a", ".", " ", "a", ".">>, <<"A", " ", "a", ".">>,
   <<"b", ".">>}

\* the text of the second text node of the content element
SecondText == <<"B", " ", "a", ".">>

\* the pairs of a Selector: a word with its translation, and a word that is
\* the same in both languages
SelectedPairs ==
  {[original |-> <<"a">>, translated |-> <<"f", "a">>],
   [original |-> <<"b">>, translated |-> <<"f", "b">>],
   [original |-> <<"a">>, translated |-> <<"a">>]}

MaxPairs == 2

\* a content element with two text nodes
ElementOf(text) ==
  [e \in Elements |-> IF e = 1 THEN <<TextNode(1, text), TextNode(2, SecondText)>>
                      ELSE <<>>]

\* processBatch from the answer of the Selector on: the first batch of a
\* content element's sentences, the validated pairs, the calls of
\* replaceWordsInSentence
ApplyProcessBatch ==
  /\ \E text \in NodeTexts, pairs \in SeqsUpTo(SelectedPairs, MaxPairs) :
       LET d == ElementOf(text)
           sentences == extractSentences(getTextNodes(d, <<1>>))
           batch == Head(batchSentences(sentences, BatchSize))
           wordPairs == validateWordPairs(pairs, batch.combinedText)
           r == replaceWordsInBatch(d, 3, batch.sentences, wordPairs)
       IN calc' = [fn |-> "processBatch", before |-> d, batch |-> batch,
                   wordPairs |-> wordPairs, after |-> r.dom]
  /\ UNCHANGED <<dom, nextId, domOnlyVars, scriptVars, lazyVars, auxVars>>

\* A page for the scan: its text nodes in document order, each with the
\* chain of its ancestor elements from the top-level block down to its parent.
Elem(tag, class, id) == [tag |-> tag, class |-> class, id |-> id]

PageNode(id, text, path) == [kind |-> "text", id |-> id, text |-> text, path |-> path]

\* the entries of EXCLUDE_SELECTORS that match an element of the model's pages
ExcludeTags == {"nav", "footer", "a", "code"}

ExcludeClasses == {"ad"}

\* current.matches(selector) for one of EXCLUDE_SELECTORS
MatchesExclude(el) == el.tag \in ExcludeTags \/ el.class \in ExcludeClasses

\* Mutant of shouldExclude: only the element itself is tested.
shouldExclude_selfOnly(chain) == MatchesExclude(chain[Len(chain)])

\* shouldExclude(element), for the chain of the element's ancestors that ends
\* with the element: the loop over current and current.parentElement
shouldExclude(chain) == \E i \in 1..Len(chain) : MatchesExclude(chain[i])

\* the elements of a page with a text node below them, in document order,
\* each as the chain of its ancestors that ends with it
RECURSIVE ChainsOf(_, _)
ChainsOf(page, seen) ==
  IF page = <<>> THEN <<>>
  ELSE LET path == Head(page).path
           new == SelectSeq([i \in 1..Len(path) |-> SubSeq(path, 1, i)],
                            LAMBDA c : c[Len(c)].id \notin seen)
       IN new \o ChainsOf(Tail(page), seen \cup {path[i].id : i \in 1..Len(path)})

\* the text nodes below the element the chain ends with
NodesBelow(page, chain) ==
  SelectSeq(page, LAMBDA n :
    Len(n.path) >= Len(chain) /\ n.path[Len(chain)].id = chain[Len(chain)].id)

\* element.textContent
RECURSIVE ConcatTexts(_)
ConcatTexts(nodes) ==
  IF nodes = <<>> THEN <<>> ELSE Head(nodes).text \o ConcatTexts(Tail(nodes))

\* the entries of INCLUDE_SELECTORS that match an element of the model's
\* pages, in the order of the list
IncludeSelectors ==
  <<[ancestor |-> "main", tag |-> "p"], [ancestor |-> "main", tag |-> "h1"],
    [ancestor |-> "", tag |-> "p"], [ancestor |-> "", tag |-> "h1"]>>

\* element.matches(selector) for a selector "ancestor tag" or "tag"
MatchesInclude(chain, selector) ==
  /\ chain[Len(chain)].tag = selector.tag
  /\ selector.ancestor # "" =>
       \E i \in 1..(Len(chain) - 1) : chain[i].tag = selector.ancestor

\* document.querySelector("main"): the first main element, <<>> if none
MainContent(page) ==
  LET mains == SelectSeq(ChainsOf(page, {}), LAMBDA c : c[Len(c)].tag = "main")
  IN IF mains = <<>> THEN <<>> ELSE Head(mains)

\* root.querySelectorAll(selector): the descendants of the root (of the
\* document when root is <<>>) that match
QuerySelectorAll(page, root, selector) ==
  SelectSeq(ChainsOf(page, {}), LAMBDA c :
    /\ MatchesInclude(c, selector)
    /\ root # <<>> =>
         \E i \in 1..(Len(c) - 1) : c[i].id = root[Len(root)].id)

\* getContentElements over the selectors from index k on, elements being
\* the Set filled so far
RECURSIVE CollectElements(_, _, _)
CollectElements(page, k, elements) ==
  IF k > Len(IncludeSelectors) THEN elements
  ELSE LET found == QuerySelectorAll(page, MainContent(page), IncludeSelectors[k])
           kept == SelectSeq(found, LAMBDA el :
                     /\ ~shouldExclude(el)
                     /\ trim(ConcatTexts(NodesBelow(page, el))) # <<>>
                     /\ el \notin SeqToSet(elements))
       IN CollectElements(page, k + 1, elements \o kept)

\* getContentElements() on a page of nested elements
getContentElementsOf(page) == CollectElements(page, 1, <<>>)

\* getTextNodesFromElement(element): the TreeWalker's acceptNode
getTextNodesFromElement(page, element) ==
  SelectSeq(NodesBelow(page, element), LAMBDA node :
    trim(node.text) # <<>> /\ ~shouldExclude(node.path))

\* getTextNodes(elements) on a page of nested elements
RECURSIVE getTextNodesOf(_, _)
getTextNodesOf(page, elements) ==
  IF elements = <<>> THEN <<>>
  ELSE getTextNodesFromElement(page, Head(elements))
       \o getTextNodesOf(page, Tail(elements))

\* The top-level blocks of a page, b being the number of the block: a
\* paragraph, a paragraph with a link, a paragraph in a nav, a main with a
\* paragraph and an ad, text in a footer, a blank heading, a div
BlockShapes == {"p", "pa", "navp", "main", "footer", "h1blank", "div"}

Block(shape, b) ==
  LET t == <<"a", ".">>
      id(i) == 10 * b + i
  IN CASE shape = "p" -> <<PageNode(id(1), t, <<Elem("p", "", id(2))>>)>>
       [] shape = "pa" ->
            <<PageNode(id(1), t, <<Elem("p", "", id(3))>>),
              PageNode(id(2), t, <<Elem("p", "", id(3)), Elem("a", "", id(4))>>)>>
       [] shape = "navp" ->
            <<PageNode(id(1), t, <<Elem("nav", "", id(2)), Elem("p", "", id(3))>>)>>
       [] shape = "main" ->
            <<PageNode(id(1), t, <<Elem("main", "", id(3)), Elem("p", "", id(4))>>),
              PageNode(id(2), t, <<Elem("main", "", id(3)), Elem("div", "ad", id(5)),
                                   Elem("p", "", id(6))>>)>>
       [] shape = "footer" -> <<PageNode(id(1), t, <<Elem("footer", "", id(2))>>)>>
       [] shape = "h1blank" -> <<PageNode(id(1), <<" ">>, <<Elem("h1", "", id(2))>>)>>
       [] OTHER -> <<PageNode(id(1), t, <<Elem("div", "", id(2))>>)>>

MaxBlocks == 2

RECURSIVE PageOf(_, _)
PageOf(shapes, b) ==
  IF b > Len(shapes) THEN <<>> ELSE Block(shapes[b], b) \o PageOf(shapes, b + 1)

\* translatePage on a page of nested elements, every batch of which gets a
\* pair for each of its sentences: the content elements, the text nodes, and
\* the text nodes handed to replaceWordInNode
ApplyScan ==
  /\ \E shapes \in SeqsUpTo(BlockShapes, MaxBlocks) :
       LET page == PageOf(shapes, 1)
           elements == getContentElementsOf(page)
           batches == batchSentences(
                        extractSentences(getTextNodesOf(page, elements)), BatchSize)
       IN calc' = [fn |-> "translatePage", page |-> page, elements |-> elements,
                   replaced |-> UNION {{batches[i].sentences[j].node :
                                          j \in 1..Len(batches[i].sentences)} :
                                       i \in 1..Len(batches)}]
  /\ UNCHANGED <<dom, nextId, domOnlyVars, scriptVars, lazyVars, auxVars>>

MaxSentencesPerNode == 3

MaxNodes == 3

\* the text of a text node with k sentences
RECURSIVE SentencesText(_)
SentencesText(k) ==
  IF k <= 1 THEN <<"a", ".">>
  ELSE <<"a", ".", " ">> \o SentencesText(k - 1)

\* translatePage from getTextNodes to batchSentences(sentences, 5), for text
\* nodes with the given numbers of sentences
ApplyBatchSentences ==
  /\ \E counts \in SeqsUpTo(1..MaxSentencesPerNode, MaxNodes) :
       LET textNodes == [i \in 1..Len(counts) |-> TextNode(i, SentencesText(counts[i]))]
       IN calc' = [fn |-> "batchSentences", textNodes |-> textNodes,
                   batches |-> batchSentences(extractSentences(textNodes), BatchSize)]
  /\ UNCHANGED <<dom, nextId, domOnlyVars, scriptVars, lazyVars, auxVars>>

MaxSentences == 7

MaxBatchSize == 3

\* the sentence with the number i of a list of sentences, each of its own
\* text node
SentenceInfo(i) ==
  LET text == IF i % 2 = 1 THEN <<"a", ".">> ELSE <<"b", " ", "b", ".">>
  IN [text |-> text, node |-> TextNode(i, text)]

\* batchSentences(sentences, batchSize) on a list of n sentences
ApplyBatchSizes ==
  /\ \E n \in 0..MaxSentences, batchSize \in 1..MaxBatchSize :
       LET sentences == [i \in 1..n |-> SentenceInfo(i)]
       IN calc' = [fn |-> "batchSizes", sentences |-> sentences,
                   batchSize |-> batchSize,
                   batches |-> batchSentences(sentences, batchSize)]
  /\ UNCHANGED <<dom, nextId, domOnlyVars, scriptVars, lazyVars, auxVars>>

pureAllVars ==
  <<dom, nextId, domOnlyVars, scriptVars, pureVars, lazyVars, auxVars>>

PureNext ==
  \/ ApplyTargetWordCount
  \/ ApplySelectWords
  \/ ApplyProcessBatch
  \/ ApplyBatchSentences
  \/ ApplyScan
  \/ ApplyBatchSizes

SpecPure == PureInit /\ [][PureNext]_pureAllVars

\* ------------------------------------------------------------------
\* translatePage on a page whose content elements lie one below the other
\* under a header, each as high as the viewport: the visible pass,
\* the ProgressiveTextLoader for the hidden elements, and its callbacks. The
\* services are initialized and their calls succeed.

\* getBoundingClientRect of element e at the scroll position y meets the
\* viewport: at y = 0 the viewport shows the header, at y = e the element e
InViewport(e, y) == e = y

\* the IntersectionObserver's test: the rootMargin of 200px adds the element
\* above and the element below the viewport
Intersects(e, y) == e \in {y - 1, y, y + 1}

separateByVisibility(elements, y) ==
  [visible |-> {e \in elements : InViewport(e, y)},
   hidden |-> {e \in elements : ~InViewport(e, y)}]

\* getContentElements(): the content elements of the page
ContentElements == 1..pageSize

\* the content elements that the calls of translatePage in a behaviour find,
\* all calls together
MaxScanned == 4

\* the invocations of loader callbacks in a behaviour
MaxInvocations == 4

Invocations ==
  LET RECURSIVE Sum(_, _)
      Sum(r, e) == IF r > MaxWalks THEN 0
                   ELSE IF e > NumPageElements THEN Sum(r + 1, 1)
                   ELSE tasks[r][e].invocations + Sum(r, e + 1)
  IN Sum(1, 1)

\* the element whose text makes two batches
LongElement == 2

\* the text of the one text node of a content element
ElementText(e) == SentencesText(IF e = LongElement THEN BatchSize + 1 ELSE 1)

\* the elements of a set in document order
InDocumentOrder(elements) ==
  SelectSeq([e \in PageElements |-> e], LAMBDA e : e \in elements)

\* batchSentences(extractSentences(getTextNodes(elements)), 5)
BatchesOf(elements) ==
  LET ordered == InDocumentOrder(elements)
  IN batchSentences(
       extractSentences([i \in 1..Len(ordered) |->
                           TextNode(ordered[i], ElementText(ordered[i]))]),
       BatchSize)

\* the content elements of the text nodes of a batch
ElementsOfBatch(batch) ==
  {batch.sentences[i].node.id : i \in 1..Len(batch.sentences)}

\* translatePage after the visible pass: the check before progressive
\* loading, new ProgressiveTextLoader(callback) and loader.observe(hidden);
\* the translation of the images that follows is not part of the model
SetUpLoader(w, sc) ==
  IF ~sc THEN [w EXCEPT !.pc = "returned", !.step = "none"]
  ELSE [w EXCEPT !.pc = "returned", !.step = "none",
                 !.loader = w.hidden # {}, !.observed = w.hidden]

\* translateAndReplaceBatches of the visible pass at its batch b: the check
\* at the head of the loop and the first check of processBatch, then
\* translateText is called
NextEager(w, b, sc) ==
  IF ~sc THEN [w EXCEPT !.pc = "returned", !.step = "none"]
  ELSE IF b > Len(BatchesOf(w.visible)) THEN SetUpLoader(w, sc)
  ELSE [w EXCEPT !.pc = "eager", !.bi = b, !.step = "translate"]

\* translateAndReplaceBatches of a callback at its batch b of nb
NextLazy(t, b, nb, sc) ==
  IF ~sc \/ b > nb THEN [t EXCEPT !.pc = "done"]
  ELSE [t EXCEPT !.pc = "translate", !.bi = b, !.order = Append(@, b)]

NextWalk == Cardinality({r \in Walks : walks[r].pc # "idle"}) + 1

offLazyVars ==
  <<dom, nextId, domOnlyVars, pureVars, storage, svc, inits, handlers, runs,
    events, faults, auxVars>>

\* translatePage() up to its first await: start(), getContentElements,
\* separateByVisibility, and the first batch of the visible pass if there is
\* a visible element
TranslatePage ==
  /\ NextWalk <= MaxWalks
  /\ NextWalk * pageSize <= MaxScanned
  /\ isActive' = TRUE
  /\ abortController' = NextWalk
  /\ LET parts == separateByVisibility(ContentElements, scrollY)
         begun == [IdleWalk EXCEPT !.visible = parts.visible,
                                   !.hidden = parts.hidden]
     IN walks' = [r \in Walks |->
                    IF r = NextWalk THEN NextEager(begun, 1, TRUE)
                    ELSE IF walks[r].pc # "idle"
                    THEN [walks[r] EXCEPT !.superseded = TRUE]
                    ELSE walks[r]]
  /\ UNCHANGED <<abortedSignals, pageSize, scrollY, tasks, marks, offLazyVars>>

\* stopTranslation() of handleToggleChange(false)
StopTranslation ==
  /\ isActive
  /\ isActive' = FALSE
  /\ abortedSignals' = IF abortController # 0
                       THEN abortedSignals \cup {abortController}
                       ELSE abortedSignals
  /\ abortController' = 0
  /\ walks' = [r \in Walks |->
                 IF walks[r].pc # "idle" THEN [walks[r] EXCEPT !.stopped = TRUE]
                 ELSE walks[r]]
  /\ UNCHANGED <<pageSize, scrollY, tasks, marks, offLazyVars>>

\* the visible pass: translateText of its batch has settled
EagerTranslateSettles(r) ==
  /\ walks[r].pc = "eager"
  /\ walks[r].step = "translate"
  /\ walks' = [walks EXCEPT ![r] =
                 IF shouldContinue THEN [@ EXCEPT !.step = "select"]
                 ELSE [@ EXCEPT !.pc = "returned", !.step = "none"]]
  /\ UNCHANGED <<sessionVars, pageSize, scrollY, tasks, marks, offLazyVars>>

\* the visible pass: selectWordsFromBatch of its batch has settled; the
\* words are replaced and the next batch begins, or the loader is set up
EagerSelectSettles(r) ==
  /\ walks[r].pc = "eager"
  /\ walks[r].step = "select"
  /\ walks' = [walks EXCEPT ![r] = NextEager(@, @.bi + 1, shouldContinue)]
  /\ marks' = IF shouldContinue
              THEN marks \cup
                   {[walk |-> r, element |-> e, pass |-> "eager"] :
                      e \in ElementsOfBatch(BatchesOf(walks[r].visible)[walks[r].bi])}
              ELSE marks
  /\ UNCHANGED <<sessionVars, pageSize, scrollY, tasks, offLazyVars>>

\* the page is scrolled by one element
Scroll ==
  /\ \E y \in {scrollY - 1, scrollY + 1} :
       /\ y \in 0..pageSize
       /\ scrollY' = y
  /\ UNCHANGED <<sessionVars, pageSize, walks, tasks, marks, offLazyVars>>

\* Mutant of onEntry: the element is neither recorded nor unobserved.
onEntry_noRecord(w, e, isIntersecting) ==
  [walk |-> w, invoke |-> isIntersecting]

\* the IntersectionObserver callback of the loader for one entry: the
\* element is recorded in processedElements, onElementVisible is invoked and
\* the element is unobserved
onEntry(w, e, isIntersecting) ==
  IF isIntersecting /\ e \notin w.processed
  THEN [walk |-> [w EXCEPT !.processed = @ \cup {e}, !.observed = @ \ {e}],
        invoke |-> TRUE]
  ELSE [walk |-> w, invoke |-> FALSE]

\* entries.forEach over the entries of one notification
RECURSIVE Deliver(_, _, _, _)
Deliver(w, entries, y, invoked) ==
  IF entries = <<>> THEN [walk |-> w, invoked |-> invoked]
  ELSE LET e == Head(entries)
           isIntersecting == Intersects(e, y)
           r == onEntry(w, e, isIntersecting)
           seen == [r.walk EXCEPT
                      !.lastEntry[e] = IF isIntersecting THEN "in" ELSE "out"]
       IN Deliver(seen, Tail(entries), y,
                  IF r.invoke THEN invoked \cup {e} ELSE invoked)

\* the callback given to the loader, up to its first await
onElementVisible(t, e, w, sc) ==
  LET called == [t EXCEPT !.invocations = @ + 1, !.order = <<>>]
  IN IF ~sc THEN [called EXCEPT !.pc = "skipped"]
     ELSE NextLazy([called EXCEPT !.late = w.superseded \/ w.stopped],
                   1, Len(BatchesOf({e})), sc)

\* the observer of a walk's loader notifies it of the observed elements
\* whose intersection has changed (all of them at first)
ObserverNotify(r) ==
  /\ walks[r].loader
  /\ LET changed == {e \in walks[r].observed :
                       walks[r].lastEntry[e] #
                         (IF Intersects(e, scrollY) THEN "in" ELSE "out")}
         d == Deliver(walks[r], InDocumentOrder(changed), scrollY, {})
     IN /\ changed # {}
        /\ Invocations + Cardinality(d.invoked) <= MaxInvocations
        /\ walks' = [walks EXCEPT ![r] = d.walk]
        /\ tasks' = [tasks EXCEPT ![r] = [e \in PageElements |->
                       IF e \in d.invoked
                       THEN onElementVisible(tasks[r][e], e, walks[r], shouldContinue)
                       ELSE tasks[r][e]]]
  /\ UNCHANGED <<sessionVars, pageSize, scrollY, marks, offLazyVars>>

\* a callback: translateText of its batch has settled
LazyTranslateSettles(r, e) ==
  /\ tasks[r][e].pc = "translate"
  /\ tasks' = [tasks EXCEPT ![r][e].pc = IF shouldContinue THEN "select" ELSE "done"]
  /\ UNCHANGED <<sessionVars, pageSize, scrollY, walks, marks, offLazyVars>>

\* a callback: selectWordsFromBatch of its batch has settled; the words are
\* replaced and the next batch of the element begins
LazySelectSettles(r, e) ==
  /\ tasks[r][e].pc = "select"
  /\ tasks' = [tasks EXCEPT ![r][e] =
                 NextLazy(@, @.bi + 1, Len(BatchesOf({e})), shouldContinue)]
  /\ marks' = IF shouldContinue
              THEN marks \cup {[walk |-> r, element |-> e, pass |-> "lazy"]}
              ELSE marks
  /\ UNCHANGED <<sessionVars, pageSize, scrollY, walks, offLazyVars>>

LazyInit ==
  /\ DomIdle
  /\ ScriptIdle
  /\ calc = NoCalc
  /\ AuxIdle
  /\ pageSize \in 1..NumPageElements
  /\ scrollY = 0
  /\ walks = [r \in Walks |-> IdleWalk]
  /\ tasks = [r \in Walks |-> [e \in PageElements |-> IdleTask]]
  /\ marks = {}

LazyNext ==
  \/ TranslatePage
  \/ StopTranslation
  \/ Scroll
  \/ \E r \in Walks :
       \/ EagerTranslateSettles(r)
       \/ EagerSelectSettles(r)
       \/ ObserverNotify(r)
       \/ \E e \in PageElements :
            LazyTranslateSettles(r, e) \/ LazySelectSettles(r, e)

SpecLazy == LazyInit /\ [][LazyNext]_vars

\* ------------------------------------------------------------------
\* StorageService.recordWordEncounter on its own: concurrent calls on one
\* language; every chrome.storage.local.get and set is one step

offStorageVars ==
  <<dom, nextId, domOnlyVars, scriptVars, pureVars, lazyVars, images,
    imageCalls, pass>>

StorageInit ==
  /\ DomIdle
  /\ ScriptIdle
  /\ calc = NoCalc
  /\ LazyIdle
  /\ AuxIdle

NextCall == Cardinality({c \in 1..MaxCalls : calls[c].pc # "idle"}) + 1

\* saveWord after its get: the word is set in the languages object that was
\* read, and the whole object is written
saveWord(read, wordId, timesEncountered) ==
  [read EXCEPT !.words[wordId] = timesEncountered]

\* updateStats after its get: the stat is set in the languages object that
\* was read, and the whole object is written
updateStats(read, totalWordsEncountered) ==
  [read EXCEPT !.totalWordsEncountered = totalWordsEncountered]

\* recordWordEncounter(language, english, translated) up to its first await
RecordWordEncounter ==
  /\ NextCall <= MaxCalls
  /\ \E english \in EnglishWords :
       calls' = [calls EXCEPT ![NextCall] =
                   [IdleCall EXCEPT !.pc = "getWord", !.english = english,
                                    !.wordId = toLowerCase(english)]]
  /\ UNCHANGED <<languages, offStorageVars>>

\* getWord: the get of getWords has settled
GetWordSettles(c) ==
  /\ calls[c].pc = "getWord"
  /\ calls' = [calls EXCEPT ![c].pc = "saveWordGet",
                            ![c].existingWord = languages.words[calls[c].wordId]]
  /\ UNCHANGED <<languages, offStorageVars>>

\* saveWord: its get has settled
SaveWordReads(c) ==
  /\ calls[c].pc = "saveWordGet"
  /\ calls' = [calls EXCEPT ![c].pc = "saveWordSet", ![c].read = languages]
  /\ UNCHANGED <<languages, offStorageVars>>

\* saveWord: its set has settled; for a new word incrementStat begins
SaveWordWrites(c) ==
  /\ calls[c].pc = "saveWordSet"
  /\ languages' = saveWord(calls[c].read, calls[c].wordId,
                           calls[c].existingWord + 1)
  /\ calls' = [calls EXCEPT ![c].pc = IF calls[c].existingWord > 0
                                      THEN "done" ELSE "getStats"]
  /\ UNCHANGED offStorageVars

\* incrementStat: the get of getStats has settled
GetStatsSettles(c) ==
  /\ calls[c].pc = "getStats"
  /\ calls' = [calls EXCEPT ![c].pc = "updateStatsGet",
                            ![c].currentValue = languages.totalWordsEncountered]
  /\ UNCHANGED <<languages, offStorageVars>>

\* updateStats: its get has settled
UpdateStatsReads(c) ==
  /\ calls[c].pc = "updateStatsGet"
  /\ calls' = [calls EXCEPT ![c].pc = "updateStatsSet", ![c].read = languages]
  /\ UNCHANGED <<languages, offStorageVars>>

\* updateStats: its set has settled
UpdateStatsWrites(c) ==
  /\ calls[c].pc = "updateStatsSet"
  /\ languages' = updateStats(calls[c].read, calls[c].currentValue + 1)
  /\ calls' = [calls EXCEPT ![c].pc = "done"]
  /\ UNCHANGED offStorageVars

StorageNext ==
  \/ RecordWordEncounter
  \/ \E c \in 1..MaxCalls :
       \/ GetWordSettles(c)
       \/ SaveWordReads(c)
       \/ SaveWordWrites(c)
       \/ GetStatsSettles(c)
       \/ UpdateStatsReads(c)
       \/ UpdateStatsWrites(c)

SpecStorage == StorageInit /\ [][StorageNext]_vars

\* ------------------------------------------------------------------
\* The image pipeline on its own: translatePage as far as the images are
\* concerned, translateImages, translateImage and clearImageTranslations

\* translateImages takes the first 10 valid images
ImageLimit == 10

MaxImageFaults == 1

offImageVars ==
  <<dom, nextId, domOnlyVars, pureVars, lazyVars, storage, svc, inits, handlers,
    runs, events, languages, calls, pass>>

\* calls of translatePage times images of a size worth translating
MaxImagesScanned == 11

\* the images that are too small, hidden or without a source: none, the
\* first, or all but the first two
InvalidImageSets == {{}, {1}, 3..NumImages}

ImageInit ==
  /\ DomIdle
  /\ ScriptIdle
  /\ calc = NoCalc
  /\ LazyIdle
  /\ StorageIdle
  /\ pass = IdlePass
  /\ \E invalid \in InvalidImageSets :
       images = [i \in 1..NumImages |-> [IdleImage EXCEPT !.valid = i \notin invalid]]
  /\ imageCalls = [c \in 1..MaxImageCalls |-> IdleImageCall]

\* Mutant of isValidImage: processedImages is not consulted.
isValidImage_ignoresProcessed(img) == img.valid

\* isValidImage(img)
isValidImage(img) == ~img.processed /\ img.valid

\* Array.from(images).filter(isValidImage) over the images from i on, in
\* document order
RECURSIVE ValidImages(_, _)
ValidImages(ims, i) ==
  IF i > NumImages THEN <<>>
  ELSE (IF isValidImage(ims[i]) THEN <<i>> ELSE <<>>) \o ValidImages(ims, i + 1)

\* the loop of translateImages from the i-th image of the call's list up to
\* the next await: translateImage returns at once for an image that is not
\* valid any more; otherwise the image is added to processedImages and
\* describeImage is called
RECURSIVE translateImagesFrom(_, _, _)
translateImagesFrom(ims, call, i) ==
  IF i > Len(call.list)
  THEN [images |-> ims, call |-> [call EXCEPT !.pc = "returned", !.idx = i]]
  ELSE LET img == call.list[i]
       IN IF ~isValidImage(ims[img]) THEN translateImagesFrom(ims, call, i + 1)
          ELSE [images |-> [ims EXCEPT ![img].processed = TRUE,
                                       ![img].describes = @ + 1],
                call |-> [call EXCEPT !.pc = "describe", !.idx = i]]

\* createImageOverlay and addOverlayToImage
addOverlayToImage(img) ==
  [img EXCEPT !.container = TRUE, !.overlays = @ + 1, !.added = @ + 1]

\* clearImageTranslations(): the overlays are removed and the images are
\* unwrapped; processedImages is left as it is
clearImageTranslations(ims) ==
  [i \in DOMAIN ims |-> [ims[i] EXCEPT !.overlays = 0, !.container = FALSE]]

NextImageCall ==
  Cardinality({c \in 1..MaxImageCalls : imageCalls[c].pc # "idle"}) + 1

\* translatePage(): start(); the text of the page is translated first
ImageTranslatePage ==
  /\ NextImageCall <= MaxImageCalls
  /\ NextImageCall * Cardinality({i \in 1..NumImages : images[i].valid})
       <= MaxImagesScanned
  /\ isActive' = TRUE
  /\ abortController' = NextImageCall
  /\ imageCalls' = [imageCalls EXCEPT ![NextImageCall].pc = "text"]
  /\ UNCHANGED <<abortedSignals, faults, images, offImageVars>>

\* translatePage after the text: if (shouldContinue()) translateImages(),
\* which awaits imageDescriptionService.initialize()
ImageTextDone(c) ==
  /\ imageCalls[c].pc = "text"
  /\ imageCalls' = [imageCalls EXCEPT
                      ![c].pc = IF shouldContinue THEN "init" ELSE "returned"]
  /\ UNCHANGED <<sessionVars, faults, images, offImageVars>>

\* translateImages: initialize() has settled; the valid images are listed,
\* the first ImageLimit of them are taken and the first is begun. A
\* rejection is caught by translatePage.
ImageInitSettles(c) ==
  /\ imageCalls[c].pc = "init"
  /\ \E ok \in BOOLEAN :
       /\ ~ok => faults < MaxImageFaults
       /\ faults' = IF ok THEN faults ELSE faults + 1
       /\ LET validImages == ValidImages(images, 1)
              imagesToProcess ==
                SubSeq(validImages, 1, Min(ImageLimit, Len(validImages)))
              r == translateImagesFrom(
                     images, [imageCalls[c] EXCEPT !.list = imagesToProcess], 1)
          IN IF ok
             THEN /\ images' = r.images
                  /\ imageCalls' = [imageCalls EXCEPT ![c] = r.call]
             ELSE /\ images' = images
                  /\ imageCalls' = [imageCalls EXCEPT ![c].pc = "returned"]
  /\ UNCHANGED <<sessionVars, offImageVars>>

\* translateImage: describeImage has settled (it answers "image" when the
\* model fails); translateText is called
DescribeSettles(c) ==
  /\ imageCalls[c].pc = "describe"
  /\ imageCalls' = [imageCalls EXCEPT ![c].pc = "translate"]
  /\ UNCHANGED <<sessionVars, faults, images, offImageVars>>

\* translateImage: translateText has settled; recordWordEncounter is called,
\* or the error is caught and the loop goes on
ImageTranslateSettles(c) ==
  /\ imageCalls[c].pc = "translate"
  /\ \E ok \in BOOLEAN :
       /\ ~ok => faults < MaxImageFaults
       /\ faults' = IF ok THEN faults ELSE faults + 1
       /\ LET r == translateImagesFrom(images, imageCalls[c], imageCalls[c].idx + 1)
          IN IF ok
             THEN /\ images' = images
                  /\ imageCalls' = [imageCalls EXCEPT ![c].pc = "record"]
             ELSE /\ images' = r.images
                  /\ imageCalls' = [imageCalls EXCEPT ![c] = r.call]
  /\ UNCHANGED <<sessionVars, offImageVars>>

\* translateImage: recordWordEncounter has returned; the overlay is added
\* and the loop goes on
ImageRecordSettles(c) ==
  /\ imageCalls[c].pc = "record"
  /\ LET img == imageCalls[c].list[imageCalls[c].idx]
         r == translateImagesFrom(
                [images EXCEPT ![img] = addOverlayToImage(@)],
                imageCalls[c], imageCalls[c].idx + 1)
     IN /\ images' = r.images
        /\ imageCalls' = [imageCalls EXCEPT ![c] = r.call]
  /\ UNCHANGED <<sessionVars, faults, offImageVars>>

\* handleToggleChange(false): stopTranslation(); clearTranslations(), which
\* ends with clearImageTranslations()
ImageToggleOff ==
  /\ isActive
  /\ isActive' = FALSE
  /\ abortedSignals' = IF abortController # 0
                       THEN abortedSignals \cup {abortController}
                       ELSE abortedSignals
  /\ abortController' = 0
  /\ images' = clearImageTranslations(images)
  /\ imageCalls' = [c \in 1..MaxImageCalls |->
                      IF imageCalls[c].pc # "idle"
                      THEN [imageCalls[c] EXCEPT !.stopped = TRUE]
                      ELSE imageCalls[c]]
  /\ UNCHANGED <<faults, offImageVars>>

ImageNext ==
  \/ ImageTranslatePage
  \/ ImageToggleOff
  \/ \E c \in 1..MaxImageCalls :
       \/ ImageTextDone(c)
       \/ ImageInitSettles(c)
       \/ DescribeSettles(c)
       \/ ImageTranslateSettles(c)
       \/ ImageRecordSettles(c)

SpecImage == ImageInit /\ [][ImageNext]_vars

\* ------------------------------------------------------------------
\* One call of translatePage to its end: every await is a step and so is
\* every turn of the exec loop of replaceWordInNode. The page has
\* NumPassBatches batches of one text node each, all in the viewport, and one
\* image.

NumPassBatches == 4

MatchesModulus == 2

\* the text of every batch
PassText == <<"a", " ", "b">>

\* the originals of the pairs the Selector may answer with
PassAnswers ==
  {<<>>, << <<"a">> >>, << <<"b">>, <<"a">> >>, << <<"a">>, <<"b">>, <<"a">> >>,
   << <<>> >>, << <<"a">>, <<>> >>}

offPassVars ==
  <<dom, nextId, domOnlyVars, pureVars, lazyVars, abortedSignals, storage, svc,
    inits, handlers, runs, events, faults, languages, calls, images, imageCalls>>

PassInit ==
  /\ DomIdle
  /\ ScriptIdle
  /\ calc = NoCalc
  /\ LazyIdle
  /\ AuxIdle

\* wordRegex.exec(text) with the g flag at lastIndex: the 1-based index of
\* the first match at or after it, 0 for null
Exec(pattern, text, lastIndex) ==
  LET found == {i \in (lastIndex + 1)..(Len(text) + 1) : MatchAt(pattern, text, i, TRUE)}
  IN IF found = {} THEN 0 ELSE CHOOSE i \in found : \A j \in found : i <= j

\* translateAndReplaceBatches at its batch b, up to translateText; after the
\* last batch, or when shouldContinue() is false: translatePage goes on to
\* the images, or returns
PassBatch(p, b, sc) ==
  IF sc /\ b <= NumPassBatches
  THEN [p EXCEPT !.pc = "translate", !.bi = b, !.pairs = <<>>, !.pi = 0]
  ELSE IF sc THEN [p EXCEPT !.pc = "imageInit", !.bi = b, !.pairs = <<>>, !.pi = 0]
  ELSE [p EXCEPT !.pc = "resolved", !.bi = b, !.pairs = <<>>, !.pi = 0]

\* replaceWordsInSentence at the pair k of the batch: replaceWordInNode tests
\* the word and, when it is found, begins the exec loop; a word that is not
\* found is skipped
RECURSIVE PassPair(_, _, _)
PassPair(p, k, sc) ==
  IF k > Len(p.pairs) THEN PassBatch(p, p.bi + 1, sc)
  ELSE IF RegexTest(escapeRegex(p.pairs[k].original), PassText, TRUE)
  THEN [p EXCEPT !.pc = "exec", !.pi = k, !.lastIndex = 0, !.matches = 0]
  ELSE PassPair(p, k + 1, sc)

\* translatePage(): start() and the first batch
PassTranslatePage ==
  /\ pass.pc = "idle"
  /\ isActive' = TRUE
  /\ abortController' = 1
  /\ pass' = PassBatch(pass, 1, TRUE)
  /\ UNCHANGED offPassVars

\* stop() while the call awaits (the exec loop is synchronous: no handler
\* runs during it)
PassStop ==
  /\ pass.pc \notin {"idle", "resolved", "exec"}
  /\ isActive
  /\ isActive' = FALSE
  /\ abortController' = 0
  /\ UNCHANGED <<pass, offPassVars>>

\* processBatch: translateText has settled with a text, with an empty string
\* or with an error
PassTranslateSettles ==
  /\ pass.pc = "translate"
  /\ \E result \in {"text", "empty", "error"} :
       pass' = IF result = "text" /\ shouldContinue
               THEN [pass EXCEPT !.pc = "select"]
               ELSE PassBatch(pass, pass.bi + 1, shouldContinue)
  /\ UNCHANGED <<isActive, abortController, offPassVars>>

\* processBatch: selectWordsFromBatch has settled with the validated pairs
\* of an answer, or with no pair; the replacement begins
PassSelectSettles ==
  /\ pass.pc = "select"
  /\ \E answer \in PassAnswers :
       LET wordPairs == validateWordPairs(WordPairs(answer, "French"), PassText)
       IN pass' = IF wordPairs = <<>> \/ ~shouldContinue
                  THEN PassBatch(pass, pass.bi + 1, shouldContinue)
                  ELSE PassPair([pass EXCEPT !.pairs = wordPairs], 1, shouldContinue)
  /\ UNCHANGED <<isActive, abortController, offPassVars>>

\* replaceWordInNode: one turn of while ((match = wordRegex.exec(text)) !==
\* null): the match is pushed and lastIndex is the end of the match, or the
\* loop ends, the node is replaced and the next pair begins
PassExec ==
  /\ pass.pc = "exec"
  /\ LET pattern == escapeRegex(pass.pairs[pass.pi].original)
         i == Exec(pattern, PassText, pass.lastIndex)
     IN pass' = IF i = 0 THEN PassPair(pass, pass.pi + 1, shouldContinue)
                ELSE [pass EXCEPT !.lastIndex = i - 1 + Len(pattern),
                                  !.matches = (@ + 1) % MatchesModulus]
  /\ UNCHANGED <<isActive, abortController, offPassVars>>

\* translateImages: initialize() has settled; a rejection is caught by
\* translatePage
PassImageInitSettles ==
  /\ pass.pc = "imageInit"
  /\ \E ok \in BOOLEAN :
       pass' = [pass EXCEPT !.pc = IF ok THEN "describe" ELSE "resolved"]
  /\ UNCHANGED <<isActive, abortController, offPassVars>>

\* translateImage: describeImage has settled
PassDescribeSettles ==
  /\ pass.pc = "describe"
  /\ pass' = [pass EXCEPT !.pc = "imageTranslate"]
  /\ UNCHANGED <<isActive, abortController, offPassVars>>

\* translateImage: translateText has settled; an error is caught
PassImageTranslateSettles ==
  /\ pass.pc = "imageTranslate"
  /\ \E ok \in BOOLEAN :
       pass' = [pass EXCEPT !.pc = IF ok THEN "record" ELSE "resolved"]
  /\ UNCHANGED <<isActive, abortController, offPassVars>>

\* translateImage: recordWordEncounter has returned; translatePage resolves
PassRecordSettles ==
  /\ pass.pc = "record"
  /\ pass' = [pass EXCEPT !.pc = "resolved"]
  /\ UNCHANGED <<isActive, abortController, offPassVars>>

\* the steps that the settling of the external calls and the running of the
\* script bring about
PassSteps ==
  \/ PassTranslateSettles
  \/ PassSelectSettles
  \/ PassExec
  \/ PassImageInitSettles
  \/ PassDescribeSettles
  \/ PassImageTranslateSettles
  \/ PassRecordSettles

PassNext == PassTranslatePage \/ PassStop \/ PassSteps

SpecPass == PassInit /\ [][PassNext]_vars /\ WF_vars(PassSteps)

\* ------------------------------------------------------------------ claims

ReplaceKeepsText ==
  (last.op = "replace" /\ last.fragment # <<>> /\ last.attached) =>
    /\ WithOriginals(last.fragment) = last.node.text
    /\ \A e \in Elements : WithOriginals(dom[e]) = last.before[e]
    /\ ~IsAttached(dom, last.node.id)
    /\ \A n \in SeqToSet(TextNodesOf(last.fragment)) : IsAttached(dom, n.id)
    /\ \A i \in 1..Len(last.fragment) :
         last.fragment[i].kind = "span" =>
           /\ TextContent(last.fragment[i].kids)
                = getAttribute(last.fragment[i], "data-translation")
           /\ toUpperCase(TextContent(last.fragment[i].kids))
                = toUpperCase(last.translated)

\* a replacement inside "a." or the like: a span between untouched text runs
ReplaceKeepsTextWitness ==
  /\ last.op = "replace" /\ last.attached /\ Len(last.fragment) = 3
  /\ last.fragment[1].kind = "text" /\ last.fragment[2].kind = "span"
  /\ last.fragment[3].kind = "text" /\ last.fragment[3].text = <<".">>
  /\ last.translated # <<>>

\* a letter or a digit, of any script
IsTokenChar(c) ==
  c \in LowerLetters \cup UpperLetters \cup Digits \cup NonAsciiLetters

\* C7: for a word W of letters and digits, every span replaceWordInNode makes
\* wraps a whole token that is W up to letter case: the characters next to it
\* in the node's text are no letters and no digits.
WholeTokensOnly ==
  (last.op = "replace" /\ last.fragment # <<>>
     /\ \A k \in 1..Len(last.word) : IsTokenChar(last.word[k])) =>
    \A i \in 1..Len(last.fragment) :
      last.fragment[i].kind = "span" =>
        LET o == getAttribute(last.fragment[i], OriginalAttribute)
            start == Len(WithOriginals(SubSeq(last.fragment, 1, i - 1)))
            text == last.node.text
        IN /\ toUpperCase(o) = toUpperCase(last.word)
           /\ start = 0 \/ ~IsTokenChar(text[start])
           /\ start + Len(o) = Len(text) \/ ~IsTokenChar(text[start + Len(o) + 1])

IsUpperLetter(c) == ToLowerChar(c) # c

IsLowerLetter(c) == ToUpperChar(c) # c

\* C8: the span of a match that is all uppercase shows the translation in
\* uppercase; else the span of a match whose first character is an uppercase
\* letter shows the translation with its first character in uppercase; else
\* the span shows the translation as it was returned.
CapitalizationPreserved ==
  (last.op = "replace" /\ last.fragment # <<>>) =>
    \A i \in 1..Len(last.fragment) :
      last.fragment[i].kind = "span" =>
        LET o == getAttribute(last.fragment[i], OriginalAttribute)
            t == last.translated
            shown == getAttribute(last.fragment[i], "data-translation")
            allUpper == /\ \E k \in 1..Len(o) : IsUpperLetter(o[k])
                        /\ \A k \in 1..Len(o) : ~IsLowerLetter(o[k])
        IN shown = IF t = <<>> THEN t
                   ELSE IF allUpper THEN toUpperCase(t)
                   ELSE IF IsUpperLetter(o[1])
                        THEN <<ToUpperChar(t[1])>> \o Tail(t)
                        ELSE t

\* ------------------------------------------------------------------
\* The session, the runs and the handlers

SpanCount(d) == SpansBefore(d, Len(d) + 1)

\* C1: a run that start() supersedes (start() is called while the run is in
\* flight, with no stop() in between) sees its next shouldContinue() return
\* false and inserts no further span.
SupersededRunStops ==
  \A r \in 1..MaxRuns :
    runs[r].superseded => ~runs[r].continuedAfter /\ ~runs[r].insertedAfter

\* C2: while the session is stopped no span is added to the document, and a
\* run whose call settles then ends without processing another batch.
NoSpanAfterStop ==
  [][~isActive =>
       /\ SpanCount(dom') <= SpanCount(dom)
       /\ \A r \in 1..MaxRuns :
            InFlight(runs[r]) /\ runs'[r] # runs[r] => runs'[r].pc = "done"]_vars

\* a run that was stopped with a call in flight: the call has settled, its
\* result was dropped and the next batch was never started
NoSpanAfterStopWitness ==
  /\ ~isActive
  /\ \E r \in 1..MaxRuns :
       /\ runs[r].pc = "done"
       /\ runs[r].stopped
       /\ \E b \in 1..(Len(runs[r].outcome) - 1) :
            runs[r].outcome[b] = "aborted" /\ runs[r].outcome[b + 1] = "pending"

\* C3: once the handler of a language change that arrived during a
\* translation has returned, every span of the document holds a translation in
\* the new language.
LanguageChangeLeavesNoOldSpans ==
  \A h \in 1..MaxEvents :
    (/\ handlers[h].kind = "languageChange"
     /\ handlers[h].duringRun
     /\ Completed(h)
     /\ \A g \in 1..MaxEvents \ {h} : handlers[g].kind # "languageChange")
    => \A e \in DOMAIN dom : \A i \in 1..Len(AllSpans(dom[e])) :
         SpanLanguage(AllSpans(dom[e])[i]) = handlers[h].language

SelectorFallback ==
  \A r \in 1..MaxRuns :
    runs[r].selectorThrew
    => LET text == runs[r].batches[runs[r].selectedBatch].combinedText
       IN runs[r].selected =
            fallbackWordSelection(text, targetWordCount(text, DefaultDensity),
                                  DefaultDifficulty)

\* ------------------------------------------------------------------
\* numerical claims

\* C12: for every word count n >= 0 the requested word count under high
\* density is at least the one under medium density, which is at least the one
\* under low density, which is at least 1.
DensityMonotone ==
  calc.fn = "targetWordCount" =>
    /\ calc.count["high"] >= calc.count["medium"]
    /\ calc.count["medium"] >= calc.count["low"]
    /\ calc.count["low"] >= 1

\* a word count for which the three densities request three different counts
DensityMonotoneWitness ==
  /\ calc.fn = "targetWordCount"
  /\ calc.count["high"] > calc.count["medium"]
  /\ calc.count["medium"] > calc.count["low"]

\* ------------------------------------------------------------------
\* validation claims

\* the word occurs in the text as a whole word, whatever the case of its
\* letters
OccursAsWholeWord(word, text) ==
  RegexTest(escapeRegex(toLowerCase(word)), toLowerCase(text), FALSE)

\* C17: the pairs selectWordsFromBatch returns are the returned pairs whose
\* original occurs as a whole word (case-insensitive) in the batch text,
\* unchanged and in order: only the offending pairs are dropped.
ValidationDropsOnlyOffending ==
  calc.fn = "selectWordsFromBatch" =>
    calc.result = SelectSeq(calc.pairs, LAMBDA pair :
                    OccursAsWholeWord(pair.original, calc.text))

\* ------------------------------------------------------------------
\* mutator claims on a batch

\* the text nodes of an element that are not inside a span
UnwrappedTexts(kids) == SelectSeq(kids, LAMBDA n : n.kind = "text")

\* the word has a whole-word occurrence in the text, whatever its case
HasOccurrence(word, text) == FindMatches(escapeRegex(word), text, 1, TRUE) # <<>>

\* C15: after a batch is processed no whole-word occurrence of a validated
\* pair's original is left outside a span in the content element of the
\* batch's sentences, and the spans of one original carry one translation.
AllOccurrencesReplaced ==
  calc.fn = "processBatch" =>
    /\ \A i \in 1..Len(calc.wordPairs) :
         \A n \in SeqToSet(UnwrappedTexts(calc.after[1])) :
           ~HasOccurrence(calc.wordPairs[i].original, n.text)
    /\ \A s1, s2 \in SeqToSet(AllSpans(calc.after[1])) :
         toLowerCase(getAttribute(s1, OriginalAttribute))
           = toLowerCase(getAttribute(s2, OriginalAttribute))
         => toLowerCase(getAttribute(s1, "data-translation"))
              = toLowerCase(getAttribute(s2, "data-translation"))

\* C16: however often replaceWordsInSentence applies a pair to a text node
\* (two sentences of one node, the same original twice in the pairs, a
\* translation that is the original word), no span is put inside a span and
\* the originals of the spans, put back, give the text the element had.
NoDoubleWrap ==
  calc.fn = "processBatch" =>
    /\ \A s \in SeqToSet(AllSpans(calc.after[1])) :
         \A k \in 1..Len(s.kids) : s.kids[k].kind = "text"
    /\ WithOriginals(calc.after[1]) = TextContent(calc.before[1])

\* a batch with two sentences of one text node and a pair whose translation
\* is the original word, applied to the node
NoDoubleWrapWitness ==
  /\ calc.fn = "processBatch"
  /\ \E i, j \in 1..Len(calc.batch.sentences) :
       i # j /\ calc.batch.sentences[i].node = calc.batch.sentences[j].node
  /\ \E i \in 1..Len(calc.wordPairs) :
       calc.wordPairs[i].original = calc.wordPairs[i].translated
  /\ Len(AllSpans(calc.after[1])) >= 2

\* ------------------------------------------------------------------
\* initialization claims

\* the initializations that were started
StartedInits == {k \in 1..MaxInits : inits[k].pc # "idle"}

\* the handlers that have called initialize()
InitCallers == {h \in 1..MaxEvents : handlers[h].init # 0}

\* C14: between two reset() calls the initialization is started at most
\* once, and the callers of initialize() between the same two reset() calls
\* all await that one initialization, so they receive its outcome.
InitializeOnce ==
  /\ \A k1, k2 \in StartedInits :
       inits[k1].resets = inits[k2].resets => k1 = k2
  /\ \A h1, h2 \in InitCallers :
       handlers[h1].resets = handlers[h2].resets
       => handlers[h1].init = handlers[h2].init
  /\ \A h \in InitCallers : inits[handlers[h].init].resets = handlers[h].resets

\* a second caller of initialize() while the first call has not settled, and
\* both callers have its outcome
InitializeOnceWitness ==
  \E h1, h2 \in InitCallers :
    /\ h1 # h2
    /\ handlers[h2].joined
    /\ handlers[h1].init = handlers[h2].init
    /\ handlers[h1].pc # "awaitInit" /\ handlers[h2].pc # "awaitInit"

\* ------------------------------------------------------------------
\* batching claims

\* the text nodes the sentences of a batch reference
NodesOfBatch(batch) ==
  {batch.sentences[i].node.id : i \in 1..Len(batch.sentences)}

\* C20: after extractSentences and batchSentences(_, 5) no text node is
\* referenced by sentences of two different batches.
BatchesShareNoNode ==
  calc.fn = "batchSentences" =>
    \A i, j \in 1..Len(calc.batches) :
      i # j => NodesOfBatch(calc.batches[i]) \cap NodesOfBatch(calc.batches[j]) = {}

\* ------------------------------------------------------------------
\* scan claims

\* C13: every text node that is replaced by translated-word spans, and so
\* every span, has no ancestor that matches the deny-list; on a page whose
\* text is all below deny-listed ancestors there is no content element and
\* nothing is replaced.
DenyListRespected ==
  calc.fn = "translatePage" =>
    /\ \A node \in calc.replaced :
         \A i \in 1..Len(node.path) : ~MatchesExclude(node.path[i])
    /\ (\A k \in 1..Len(calc.page) :
          \E i \in 1..Len(calc.page[k].path) : MatchesExclude(calc.page[k].path[i]))
       => calc.elements = <<>> /\ calc.replaced = {}

\* a page on which a text node is replaced while the text of a link inside
\* the same content element and the paragraph of a nav are left alone
DenyListRespectedWitness ==
  /\ calc.fn = "translatePage"
  /\ \E node \in calc.replaced, k \in 1..Len(calc.page) :
       /\ calc.page[k] \notin calc.replaced
       /\ calc.page[k].path[1] = node.path[1]
       /\ calc.page[k].path[Len(calc.page[k].path)].tag = "a"
  /\ \E k \in 1..Len(calc.page) : calc.page[k].path[1].tag = "nav"

\* ------------------------------------------------------------------
\* lazy loading claims

\* the callbacks of a walk's loader that were invoked
Invoked(r) == {e \in PageElements : tasks[r][e].invocations > 0}

\* C11: an element that was hidden at the scan is not replaced by the visible
\* pass, the callback of one loader is invoked at most once for an element,
\* only for an element that was hidden at the scan, and an element whose
\* callback was invoked is no longer observed.
LazyOnce ==
  /\ \A m \in marks : m.pass = "eager" => m.element \in walks[m.walk].visible
  /\ \A r \in Walks :
       /\ \A e \in PageElements : tasks[r][e].invocations <= 1
       /\ Invoked(r) \subseteq walks[r].hidden
       /\ Invoked(r) = walks[r].processed
       /\ walks[r].processed \cap walks[r].observed = {}

\* a walk with a visible pass that replaced words, and an element hidden at
\* its scan whose callback was invoked once, has replaced words and has
\* finished, after which the page was scrolled away from the element
LazyOnceWitness ==
  \E r \in Walks, e \in PageElements :
    /\ e \in walks[r].hidden
    /\ \E m \in marks : m.walk = r /\ m.pass = "eager"
    /\ tasks[r][e].invocations = 1
    /\ tasks[r][e].pc = "done"
    /\ [walk |-> r, element |-> e, pass |-> "lazy"] \in marks
    /\ ~Intersects(e, scrollY)

\* C18: no callback of a loader extracts and translates an element after
\* the walk that made the loader was superseded by a new session or stopped.
NoCallbackAfterSupersede ==
  \A r \in Walks, e \in PageElements : ~tasks[r][e].late

\* the limit the callers of translateAndReplaceBatches name
ConcurrencyLimit == 3

\* the batches with a call of the Translator or of the Selector in flight
InFlightBatches ==
  Cardinality({r \in Walks : walks[r].pc = "eager"})
  + Cardinality({<<r, e>> \in Walks \X PageElements :
                   tasks[r][e].pc \in {"translate", "select"}})

\* C19: at most 3 batches have a call in flight, the visible pass and the
\* callbacks together, and the batches of an element are dispatched in
\* source order; stated for the behaviours in which no session was
\* superseded, where the callbacks of one loader are all there is.
ConcurrencyBounded ==
  (\A r \in Walks : ~walks[r].superseded) =>
    /\ InFlightBatches <= ConcurrencyLimit
    /\ \A r \in Walks, e \in PageElements :
         tasks[r][e].order = [i \in 1..Len(tasks[r][e].order) |-> i]

\* ------------------------------------------------------------------
\* partition claims

\* the sentence lists of the batches, one after the other
RECURSIVE ConcatBatches(_)
ConcatBatches(batches) ==
  IF batches = <<>> THEN <<>>
  ELSE Head(batches).sentences \o ConcatBatches(Tail(batches))

\* the texts of the sentences with one space between two of them
RECURSIVE JoinedBySpace(_, _)
JoinedBySpace(sentences, i) ==
  IF i > Len(sentences) THEN <<>>
  ELSE (IF i > 1 THEN <<" ">> ELSE <<>>) \o sentences[i].text
       \o JoinedBySpace(sentences, i + 1)

SessionObjectConsistent ==
  /\ isActive <=> abortController # 0
  /\ abortController \notin abortedSignals
  /\ shouldContinue <=> isActive
  /\ ~isActive => abortController = 0

\* start() and then stop() have been called: the controller was aborted and
\* released
SessionObjectConsistentWitness ==
  /\ abortedSignals # {}
  /\ ~isActive
  /\ abortController = 0

\* C22: once a call of translatePage() has resolved and stop() has not been
\* called since it began (nor start() by a later call), no session is active:
\* isTranslating() and shouldContinue() are false.
IdleOnNaturalCompletion ==
  \A r \in Walks :
    (walks[r].pc = "returned" /\ ~walks[r].stopped /\ ~walks[r].superseded)
      => (~isActive /\ ~shouldContinue)

\* C23: replaceWordInNode on a text node that has left the document since it
\* was extracted (an earlier replacement or a revert took it out) changes
\* nothing in the document.
DetachedReplaceIsNoOp ==
  (last.op = "replace" /\ ~last.attached) => ~last.changed

\* the word occurs in the node's text, a fragment was built, and the node was
\* no longer in the document
DetachedReplaceIsNoOpWitness ==
  /\ last.op = "replace"
  /\ last.fragment # <<>>
  /\ ~last.attached
  /\ ~last.changed

\* C27: in every reachable state of the page no translated-word span lies
\* inside another translated-word span.
NoNestedSpans ==
  \A e \in DOMAIN dom :
    \A span \in SeqToSet(AllSpans(dom[e])) : AllSpans(span.kids) = <<>>

\* C28: when a disable came after an enable (the stored flag is off, so no
\* enable came later) and no language change arrived, then once every handler
\* has returned and no call is in flight, no session is active.
DisableWinsOverPendingEnable ==
  (/\ ~storage.translationEnabled
   /\ \E h \in 1..MaxEvents : handlers[h].kind = "toggleOn"
   /\ \A h \in 1..MaxEvents :
        /\ handlers[h].kind # "languageChange"
        /\ handlers[h].kind # "none" => Completed(h)
   /\ \A r \in 1..MaxRuns : ~InFlight(runs[r]))
  => ~isActive

\* the sum of timesEncountered over the words of the set ids
RECURSIVE SumEncounters(_)
SumEncounters(ids) ==
  IF ids = {} THEN 0
  ELSE LET w == CHOOSE x \in ids : TRUE
       IN languages.words[w] + SumEncounters(ids \ {w})

\* C29: once concurrent calls of recordWordEncounter have all returned, the
\* sum of timesEncountered over the stored words is the number of calls, and
\* stats.totalWordsEncountered is the number of distinct words stored.
NoLostEncounter ==
  (\A c \in 1..MaxCalls : calls[c].pc \in {"idle", "done"})
  => /\ SumEncounters(WordIds)
          = Cardinality({c \in 1..MaxCalls : calls[c].pc = "done"})
     /\ languages.totalWordsEncountered
          = Cardinality({w \in WordIds : languages.words[w] > 0})

\* ------------------------------------------------------------------
\* image claims

\* C24: once stopTranslation() has been called and the overlays have been
\* cleared, and for as long as no session is active, translateImages and
\* translateImage add no overlay and no container to the page, whatever call
\* was in flight at the stop.
NoOverlayAfterStop ==
  [][~isActive =>
       \A i \in 1..NumImages :
         /\ images'[i].added = images[i].added
         /\ images'[i].container => images[i].container]_vars

\* C25: an image is processed at most once over the life of the page (one
\* describeImage call, one overlay, also after clearImageTranslations and a
\* later translatePage), and one call of translateImages takes at most 10
\* images.
ImageProcessedOnce ==
  /\ \A i \in 1..NumImages : images[i].describes <= 1 /\ images[i].added <= 1
  /\ \A c \in 1..MaxImageCalls : Len(imageCalls[c].list) <= ImageLimit

\* an image got its overlay, the overlays were cleared, and a later call of
\* translateImages has listed the images and returned without taking any
ImageProcessedOnceWitness ==
  /\ \E i \in 1..NumImages : images[i].added = 1 /\ images[i].overlays = 0
  /\ \E c \in 1..MaxImageCalls :
       /\ imageCalls[c].pc = "returned"
       /\ imageCalls[c].idx = 1
       /\ imageCalls[c].list = <<>>
       /\ ~imageCalls[c].stopped

\* C30: a call of translatePage() on a page with finitely many content
\* elements eventually resolves when every external call settles, whether or
\* not stop() is called during the run.
TranslatePageResolves == (pass.pc # "idle") ~> (pass.pc = "resolved")

====
